---------------------------- MODULE Spec2Model ----------------------------
(***************************************************************************)
(* Referral-aware account ledger and subscription engine of examplebot.    *)
(*                                                                         *)
(* The store is the "users" table (db/models.py).  Every handler works in  *)
(* its own AsyncSession (db/database.py): a session keeps an identity map  *)
(* of the rows it has loaded, a SELECT never overwrites an object that is  *)
(* already in the map (expire_on_commit=False), commit() flushes an UPDATE *)
(* of the changed columns with the values held in memory, and refresh()    *)
(* reloads the row.  Each await of a store call is one step; the code      *)
(* between two awaits runs without interruption.                           *)
(*                                                                         *)
(* Time is counted in days.  MaxDate stands for datetime.max: adding a     *)
(* timedelta that leaves the representable range raises OverflowError.     *)
(***************************************************************************)
EXTENDS Integers, Sequences, FiniteSets, TLC

VARIABLES
    db,      \* the store: the rows of the users table, by id
    now,     \* the clock, datetime.utcnow(), in days
    last,    \* the last call run on its own: arguments, store before, result
    procs,   \* the handlers in flight, each with its session and its position
    calls,   \* calls started so far
    hist     \* the calls that have ended in a concurrent run, in the order they ended

vars == <<db, now, last, procs, calls, hist>>

-----------------------------------------------------------------------------
(* Bounds of the model *)

MaxCalls == 3       \* calls started in one sequential behaviour
MaxConcCalls == 3   \* calls started in one concurrent behaviour
NumProcs == 2       \* handlers that may be in flight together
MaxNow == 1         \* the clock runs 0..MaxNow
MaxPayCalls == 4    \* calls started in one behaviour of the payment specification
MaxDate == 1000     \* last representable day (datetime.max), first is -MaxDate
MaxRepoCalls == 3   \* calls started in one behaviour of the repository specification
MaxLedgerCalls == 4 \* calls started in one behaviour of the ledger specification
MaxAdminCalls == 3  \* messages handled in one behaviour of the admin specification
MaxReferCalls == 3  \* registrations started in one behaviour of the referral specification
MaxChurnCalls == 4  \* calls started in one behaviour of the churn specification
MaxBalanceCalls == 4 \* calls started in one behaviour of the balance specification
MaxInviteCalls == 3  \* calls started in one behaviour of the invitation specification

(* Program constants *)

REFERRAL_BONUS == 1
DEFAULT_COINS == 2
DEFAULT_PERCENTAGE == 5
DEFAULT_SUBSCRIPTION_DAYS == 3

NULL == "None"

TgIds == {42, 43}
Ids == {1, 2}
Procs == 1 .. NumProcs

-----------------------------------------------------------------------------
(* utils/helpers.py: generate_user_hash.  sha256(str(tg_id)).hexdigest()[:12], *)
(* tabulated with the values the function returns.                             *)

HashTable ==
    [t \in 41 .. 47 |->
        CASE t = 41 -> "3d914f9348c9"
          [] t = 42 -> "73475cb40a56"
          [] t = 43 -> "44cb730c4204"
          [] t = 44 -> "71ee45a3c0db"
          [] t = 45 -> "811786ad1ae7"
          [] t = 46 -> "25fc0e7096fc"
          [] t = 47 -> "31489056e091"]

generate_user_hash(tg_id) == HashTable[tg_id]

UnknownHash == "deadbeef0000"

-----------------------------------------------------------------------------
(* handlers/admin.py: the text of a command.  A text is the sequence of its   *)
(* characters; "sup2" stands for the character SUPERSCRIPT TWO, which         *)
(* str.isdigit() accepts and int() rejects.                                   *)

DecimalDigits == {"0", "1", "2", "3", "4", "5", "6", "7", "8", "9"}

DigitValue(c) ==
    CASE c = "0" -> 0 [] c = "1" -> 1 [] c = "2" -> 2 [] c = "3" -> 3 [] c = "4" -> 4
      [] c = "5" -> 5 [] c = "6" -> 6 [] c = "7" -> 7 [] c = "8" -> 8 [] c = "9" -> 9
      [] OTHER -> 0

\* str.split(): the words between runs of whitespace, none of them empty
RECURSIVE SplitFrom(_, _, _)
SplitFrom(s, word, words) ==
    IF s = <<>> THEN IF word = <<>> THEN words ELSE Append(words, word)
    ELSE IF Head(s) = " "
         THEN SplitFrom(Tail(s), <<>>, IF word = <<>> THEN words ELSE Append(words, word))
         ELSE SplitFrom(Tail(s), Append(word, Head(s)), words)

split(s) == SplitFrom(s, <<>>, <<>>)

\* str.isdigit()
isdigit(s) == s # <<>> /\ \A k \in DOMAIN s : s[k] \in DecimalDigits \cup {"sup2"}

RECURSIVE Decimal(_)
Decimal(s) ==
    IF s = <<>> THEN 0
    ELSE 10 * Decimal(SubSeq(s, 1, Len(s) - 1)) + DigitValue(s[Len(s)])

\* int() that raises nothing: a text that is not a run of digits reads as 0
IntLenient(s) ==
    [ok |-> TRUE,
     val |-> IF \A k \in DOMAIN s : s[k] \in DecimalDigits THEN Decimal(s) ELSE 0]

\* int(s): an optional sign and one or more decimal digits give the value (ok);
\* any other text raises ValueError (not ok).
int(s) ==
    LET signed == s # <<>> /\ s[1] \in {"+", "-"}
        digits == IF signed THEN Tail(s) ELSE s
        ok == digits # <<>> /\ \A k \in DOMAIN digits : digits[k] \in DecimalDigits
    IN  [ok |-> ok,
         val |-> IF ~ok THEN 0
                 ELSE IF signed /\ s[1] = "-" THEN -Decimal(digits) ELSE Decimal(digits)]

\* The string of a word's characters
RECURSIVE Str(_)
Str(s) == IF s = <<>> THEN "" ELSE Head(s) \o Str(Tail(s))

-----------------------------------------------------------------------------
(* db/models.py: User *)

UserWithoutDefaults(id, tg_id, username, user_hash, invited_by_hash, coins, subscription_until) ==
    [id |-> id, tg_id |-> tg_id, username |-> username, user_hash |-> user_hash,
     invited_count |-> 0, invited_by_hash |-> invited_by_hash, coins |-> coins,
     referral_earnings |-> 0, referral_percentage |-> 0,
     subscription_until |-> subscription_until]

User(id, tg_id, username, user_hash, invited_by_hash, coins, subscription_until) ==
    [id |-> id, tg_id |-> tg_id, username |-> username, user_hash |-> user_hash,
     invited_count |-> 0, invited_by_hash |-> invited_by_hash, coins |-> coins,
     referral_earnings |-> 0, referral_percentage |-> DEFAULT_PERCENTAGE,
     subscription_until |-> subscription_until]

NoUser == [id |-> 0, tg_id |-> 0, username |-> NULL, user_hash |-> NULL,
           invited_count |-> 0, invited_by_hash |-> NULL, coins |-> 0,
           referral_earnings |-> 0, referral_percentage |-> 0,
           subscription_until |-> 0]

EmptyMap == [i \in {} |-> NoUser]

\* db/models.py: Transaction and Usage.  created_at and used_at are filled by the
\* server default, as text.
Transaction(id, user_id, amount, description, created_at) ==
    [id |-> id, user_id |-> user_id, amount |-> amount, description |-> description,
     created_at |-> created_at]

Usage(id, user_id, coins_used, used_at) ==
    [id |-> id, user_id |-> user_id, coins_used |-> coins_used, used_at |-> used_at]

NoTransaction == Transaction(0, 0, 0, "", <<>>)

NoUsage == Usage(0, 0, 0, <<>>)

EmptyTable == <<>>

\* The store: the tables users, transactions and usage, each by primary key.
EmptyDb == [users |-> EmptyMap, transactions |-> EmptyTable, usage |-> EmptyTable]

Truthy(s) == s # NULL /\ s # ""

Max(S) == IF S = {} THEN 0 ELSE CHOOSE x \in S : \A y \in S : y <= x

InRange(d) == d >= -MaxDate /\ d <= MaxDate

-----------------------------------------------------------------------------
(* Arguments of a call, the frame of a repository method, a handler's result *)

NoArgs == [op |-> "none", tg_id |-> 0, username |-> NULL, invited_by_hash |-> NULL,
           user_id |-> 0, amount |-> 0, days |-> 0, payment |-> 0,
           user_hash |-> NULL, kwargs |-> <<>>,
           description |-> "", row_id |-> 0, micro |-> 0, text |-> <<>>]

\* One keyword argument of update_user: the field's name and its value, an
\* integer or a string according to the field.
Kw(key, ival, sval) == [key |-> key, ival |-> ival, sval |-> sval]

NoFrame == [name |-> "none", id |-> 0, x |-> 0, kwargs |-> <<>>]

\* The dictionary get_usage_stats returns; average_per_usage is the quotient of
\* the pair it holds, or 0.
NoStats == [period_days |-> 0, total_usages |-> 0, total_coins_used |-> 0,
            average_per_usage |-> 0]

NoResult == [returned |-> FALSE, success |-> FALSE, id |-> 0, user |-> NoUser,
             bonus |-> 0, referrer_id |-> 0, error |-> "", raised |-> "",
             stats |-> NoStats, balance |-> 0]

Idle == [pc |-> "idle", ret |-> "", a |-> NoArgs, im |-> EmptyMap, qi |-> 0, qs |-> NULL,
         rv |-> 0, user |-> 0, inviter |-> 0, referrer |-> 0, bonus |-> 0,
         m |-> NoFrame, dirty |-> FALSE, new |-> NoUser, res |-> NoResult,
         transaction |-> NoTransaction, usage |-> NoUsage, qt |-> <<>>,
         transactions |-> {}, usage_records |-> {}]

\* The handler ends (the session is closed with it): by an exception, or by a return.
Raise(l, exc) == [Idle EXCEPT !.pc = "done", !.a = l.a, !.res = [l.res EXCEPT !.raised = exc]]

Return(l, res) == [Idle EXCEPT !.pc = "done", !.a = l.a, !.res = [res EXCEPT !.returned = TRUE]]


-----------------------------------------------------------------------------
(* The session's view of the store *)

\* session.execute(select(User).where(...)).scalar_one_or_none(): the row found is
\* loaded into the identity map unless its identity is already there, in which
\* case the object in the map is returned with the attributes it has in memory.
Load(d, l, S) ==
    IF S = {} THEN [l EXCEPT !.rv = 0, !.pc = l.ret]
    ELSE LET i == CHOOSE j \in S : TRUE
         IN [l EXCEPT !.rv = i, !.pc = l.ret,
                      !.im = IF i \in DOMAIN l.im THEN l.im ELSE (i :> d.users[i]) @@ l.im]

NoUniqueConstraint(users, self, tg_id, user_hash) == FALSE

UniqueOnTgIdOnly(users, self, tg_id, user_hash) ==
    \E i \in DOMAIN users : i # self /\ users[i].tg_id = tg_id

\* The unique constraints of the users table on tg_id and user_hash.
UniqueViolation(users, self, tg_id, user_hash) ==
    \E i \in DOMAIN users :
        i # self /\ (users[i].tg_id = tg_id \/ users[i].user_hash = user_hash)

\* The primary key of the users table: an UPDATE may not move a row onto the id
\* of another row.
PrimaryKeyViolation(users, self, id) == id # self /\ id \in DOMAIN users

\* a new row that takes the first id, replacing the row that has it
NextIdFirst(users) == 1

\* SQLite gives a new row of an INTEGER PRIMARY KEY table the largest rowid plus one.
NextId(users) == Max(DOMAIN users) + 1

-----------------------------------------------------------------------------
(* Timestamps as the store holds and compares them.  A text is the sequence of *)
(* its fields, most significant first; SQLite compares texts field by field,   *)
(* and a text that is a proper prefix of another sorts below it.               *)

\* func.now() as server default: CURRENT_TIMESTAMP, 'YYYY-MM-DD HH:MM:SS'.
CurrentTimestamp(today) == <<today>>

\* A datetime bound as a parameter: SQLAlchemy's storage format for SQLite,
\* 'YYYY-MM-DD HH:MM:SS.ffffff', the microseconds always written.
StorageFormat(seconds, microseconds) == <<seconds, microseconds>>

TextLess(a, b) ==
    \E k \in 1 .. Len(b) :
        /\ \A j \in 1 .. (k - 1) : j <= Len(a) /\ a[j] = b[j]
        /\ IF k > Len(a) THEN TRUE ELSE a[k] < b[k]

\* "Usage.used_at >= start_date" as the store evaluates it
TextGE(a, b) == ~TextLess(a, b)

-----------------------------------------------------------------------------
(* db/requests_db.py: what each UserRepository mutator assigns to the loaded object *)

ExtendClamped(subscription_until, days) ==
    IF subscription_until < 0 THEN days ELSE subscription_until + days

ExtendBackward(subscription_until, days) == subscription_until - days

\* user.subscription_until + timedelta(days=days)
extend_value(subscription_until, days) == subscription_until + days

UpdateFromEpoch(today, days) == days

\* datetime.utcnow() + timedelta(days=days)
update_value(today, days) == today + days

AddCoinsDropped(coins, amount) == coins

add_coins_value(coins, amount) == coins + amount

SubtractCoinsFloored(coins, amount) == IF coins - amount < 0 THEN 0 ELSE coins - amount

subtract_coins_value(coins, amount) == coins - amount

EarningsDropped(referral_earnings, amount) == referral_earnings

EarningsDoubled(referral_earnings, amount) == referral_earnings + 2 * amount

\* user.referral_earnings += amount
add_referral_earnings_value(referral_earnings, amount) == referral_earnings + amount

InvitedCountKept(invited_count) == invited_count

\* user.invited_count += 1
increment_invited_count_value(invited_count) == invited_count + 1

Overflows(f, o, today) ==
    \/ f.name = "extend_subscription" /\ ~InRange(extend_value(o.subscription_until, f.x))
    \/ f.name = "update_subscription" /\ ~InRange(update_value(today, f.x))

\* The mapped columns of User: the names hasattr(user, key) finds among the
\* field names a caller may pass.
Columns == {"id", "tg_id", "username", "user_hash", "invited_count", "invited_by_hash",
            "coins", "referral_earnings", "referral_percentage", "subscription_until"}

hasattr(key) == key \in Columns

SetAttrInviter(o, key, ival, sval) == [o EXCEPT !.invited_by_hash = sval]

SetAttr(o, key, ival, sval) ==
    CASE key = "id" -> [o EXCEPT !.id = ival]
      [] key = "tg_id" -> [o EXCEPT !.tg_id = ival]
      [] key = "username" -> [o EXCEPT !.username = sval]
      [] key = "user_hash" -> [o EXCEPT !.user_hash = sval]
      [] key = "invited_count" -> [o EXCEPT !.invited_count = ival]
      [] key = "invited_by_hash" -> [o EXCEPT !.invited_by_hash = sval]
      [] key = "coins" -> [o EXCEPT !.coins = ival]
      [] key = "referral_earnings" -> [o EXCEPT !.referral_earnings = ival]
      [] key = "referral_percentage" -> [o EXCEPT !.referral_percentage = ival]
      [] key = "subscription_until" -> [o EXCEPT !.subscription_until = ival]
      [] OTHER -> o

\* "for key, value in kwargs.items(): if hasattr(user, key): setattr(user, key, value)"
RECURSIVE SetAttrs(_, _)
SetAttrs(o, kwargs) ==
    IF kwargs = <<>> THEN o
    ELSE LET kw == Head(kwargs)
         IN  SetAttrs(IF hasattr(kw.key) THEN SetAttr(o, kw.key, kw.ival, kw.sval) ELSE o,
                      Tail(kwargs))

Mutate(f, o, today) ==
    CASE f.name = "add_coins" -> [o EXCEPT !.coins = add_coins_value(o.coins, f.x)]
      [] f.name = "subtract_coins" -> [o EXCEPT !.coins = subtract_coins_value(o.coins, f.x)]
      [] f.name = "add_referral_earnings" ->
            [o EXCEPT !.referral_earnings =
                          add_referral_earnings_value(o.referral_earnings, f.x)]
      [] f.name = "update_referral_percentage" -> [o EXCEPT !.referral_percentage = f.x]
      [] f.name = "increment_invited_count" ->
            [o EXCEPT !.invited_count = increment_invited_count_value(o.invited_count)]
      [] f.name = "update_subscription" ->
            [o EXCEPT !.subscription_until = update_value(today, f.x)]
      [] f.name = "extend_subscription" ->
            [o EXCEPT !.subscription_until = extend_value(o.subscription_until, f.x)]
      [] f.name = "update_user" -> SetAttrs(o, f.kwargs)
      [] OTHER -> o

\* A repository mutator is entered: its first await is get_user_by_id.
CallRepo(l, name, id, x, ret) ==
    [l EXCEPT !.m = [NoFrame EXCEPT !.name = name, !.id = id, !.x = x,
                                    !.kwargs = l.a.kwargs],
              !.pc = "m_select", !.ret = ret]

Query(l, pc, qi, qs, ret) == [l EXCEPT !.pc = pc, !.qi = qi, !.qs = qs, !.ret = ret]


-----------------------------------------------------------------------------
(* utils/helpers.py *)

\* the guard "inviter.user_hash == user_hash" of get_or_create_user
SelfReferral(inviter_hash, user_hash) == inviter_hash = user_hash

TruncDiv(n, d) == IF n >= 0 THEN n \div d ELSE -((-n) \div d)

BonusFloor(payment_amount, referral_percentage) ==
    (payment_amount * referral_percentage) \div 100

\* int(payment_amount * referrer.referral_percentage / 100): int() truncates toward zero
bonus_amount(payment_amount, referral_percentage) ==
    TruncDiv(payment_amount * referral_percentage, 100)

Success == [NoResult EXCEPT !.success = TRUE]

FailureAsSuccess(error) == Success

Failure(error) == [NoResult EXCEPT !.error = error]

\* "if not user": no row has the Telegram id
NotRegisteredAlways(rv) == TRUE

NotRegistered(rv) == rv = 0

\* "invited_by_hash=inviter.user_hash if inviter else None"
InvitedByAsGiven(l) == l.a.invited_by_hash

InvitedBy(l) == IF l.inviter # 0 THEN l.im[l.inviter].user_hash ELSE NULL

\* get_or_create_user with the inviter counted and rewarded before the user
\* is created
InviterFirst(l, today) ==
    CASE l.pc = "@get_or_create_user" ->
            Query(l, "get_user_by_tg_id", l.a.tg_id, NULL, "@goc_got_user")
      [] l.pc = "@goc_got_user" ->
            IF ~NotRegistered(l.rv) THEN [l EXCEPT !.user = l.rv, !.pc = "@goc_return"]
            ELSE IF Truthy(l.a.invited_by_hash)
                 THEN Query(l, "get_user_by_hash", 0, l.a.invited_by_hash, "@goc_got_inviter")
                 ELSE [l EXCEPT !.inviter = 0, !.pc = "@goc_create"]
      [] l.pc = "@goc_got_inviter" ->
            IF l.rv # 0 /\ ~SelfReferral(l.im[l.rv].user_hash, generate_user_hash(l.a.tg_id))
            THEN CallRepo([l EXCEPT !.inviter = l.rv], "increment_invited_count",
                          l.im[l.rv].id, 0, "@goc_incremented")
            ELSE [l EXCEPT !.inviter = 0, !.pc = "@goc_create"]
      [] l.pc = "@goc_incremented" ->
            CallRepo(l, "add_coins", l.im[l.inviter].id, REFERRAL_BONUS, "@goc_create")
      [] l.pc = "@goc_create" ->
            [l EXCEPT !.pc = "create_commit", !.ret = "@goc_created",
                      !.new = User(0, l.a.tg_id, l.a.username, generate_user_hash(l.a.tg_id),
                                   InvitedBy(l),
                                   DEFAULT_COINS, today + DEFAULT_SUBSCRIPTION_DAYS)]
      [] l.pc = "@goc_created" -> [l EXCEPT !.user = l.rv, !.pc = "@goc_return"]
      [] l.pc = "@goc_return" ->
            Return(l, [Success EXCEPT !.id = l.im[l.user].id, !.user = l.im[l.user]])

\* a registered user given the username of the message
ExistingUserRenamed(l) ==
    CallRepo([l EXCEPT !.user = l.rv, !.a.kwargs = <<Kw("username", 0, l.a.username)>>],
             "update_user", l.im[l.rv].id, 0, "@goc_return")

\* "if not user: ..." is skipped: the user found is returned as it is
ExistingUser(l) == [l EXCEPT !.user = l.rv, !.pc = "@goc_return"]

\* The code of get_or_create_user between two awaits.
get_or_create_user_local(l, today) ==
    CASE l.pc = "@get_or_create_user" ->
            Query(l, "get_user_by_tg_id", l.a.tg_id, NULL, "@goc_got_user")
      [] l.pc = "@goc_got_user" ->
            IF ~NotRegistered(l.rv) THEN ExistingUser(l)
            ELSE IF Truthy(l.a.invited_by_hash)
                 THEN Query(l, "get_user_by_hash", 0, l.a.invited_by_hash, "@goc_got_inviter")
                 ELSE [l EXCEPT !.inviter = 0, !.pc = "@goc_create"]
      [] l.pc = "@goc_got_inviter" ->
            [l EXCEPT !.pc = "@goc_create",
                      !.inviter = IF l.rv # 0 /\ SelfReferral(l.im[l.rv].user_hash,
                                                              generate_user_hash(l.a.tg_id))
                                  THEN 0 ELSE l.rv]
      [] l.pc = "@goc_create" ->
            [l EXCEPT !.pc = "create_commit", !.ret = "@goc_created",
                      !.new = User(0, l.a.tg_id, l.a.username, generate_user_hash(l.a.tg_id),
                                   InvitedBy(l),
                                   DEFAULT_COINS, today + DEFAULT_SUBSCRIPTION_DAYS)]
      [] l.pc = "@goc_created" ->
            IF l.inviter # 0
            THEN CallRepo([l EXCEPT !.user = l.rv], "increment_invited_count",
                          l.im[l.inviter].id, 0, "@goc_incremented")
            ELSE [l EXCEPT !.user = l.rv, !.pc = "@goc_return"]
      [] l.pc = "@goc_incremented" ->
            CallRepo(l, "add_coins", l.im[l.inviter].id, REFERRAL_BONUS, "@goc_return")
      [] l.pc = "@goc_return" ->
            Return(l, [Success EXCEPT !.id = l.im[l.user].id, !.user = l.im[l.user]])

ReferrerHashOwn(l) == l.im[l.user].user_hash

\* "if user.invited_by_hash: referrer = get_user_by_hash(session, user.invited_by_hash)"
ReferrerHash(l) == l.im[l.user].invited_by_hash

\* a payment with no referrer to credit reported as failed
ResultFailed == Failure("Referrer not found")

\* "result = {success: True, ..., referrer_bonus: 0, referrer_id: None}"
result == Success

\* The code of process_referral_payment between two awaits.
process_referral_payment_local(l, today) ==
    CASE l.pc = "@process_referral_payment" ->
            Query(l, "get_user_by_id", l.a.user_id, NULL, "@prp_got_user")
      [] l.pc = "@prp_got_user" ->
            IF l.rv = 0 THEN Return(l, Failure("User not found"))
            ELSE CallRepo([l EXCEPT !.user = l.rv], "add_coins", l.a.user_id, l.a.amount,
                          "@prp_added")
      [] l.pc = "@prp_added" ->
            IF l.rv = 0 THEN Return(l, Failure("Failed to add coins to user"))
            ELSE CallRepo(l, "extend_subscription", l.a.user_id, l.a.days, "@prp_extended")
      [] l.pc = "@prp_extended" ->
            IF l.rv = 0 THEN Return(l, Failure("Failed to extend user subscription"))
            ELSE IF Truthy(l.im[l.user].invited_by_hash)
                 THEN Query(l, "get_user_by_hash", 0, ReferrerHash(l), "@prp_got_referrer")
                 ELSE Return(l, result)
      [] l.pc = "@prp_got_referrer" ->
            IF l.rv = 0 THEN Return(l, result)
            ELSE LET b == bonus_amount(l.a.payment, l.im[l.rv].referral_percentage)
                 IN CallRepo([l EXCEPT !.referrer = l.rv, !.bonus = b],
                             "add_referral_earnings", l.im[l.rv].id, b, "@prp_credited")
      [] l.pc = "@prp_credited" ->
            IF l.rv = 0 THEN Return(l, result)
            ELSE Return(l, [result EXCEPT !.bonus = l.bonus, !.referrer_id = l.referrer])


-----------------------------------------------------------------------------
(* handlers/admin.py: add_to_user.  The handler catches every exception and  *)
(* answers with a message; nothing is written after the exception.           *)

add_to_user_local(l, today) ==
    CASE l.pc = "@add_to_user" ->
            IF l.a.amount = 0 /\ l.a.days = 0 THEN Return(l, Failure("usage"))
            ELSE Query(l, "get_user_by_tg_id", l.a.tg_id, NULL, "@atu_got_user")
      [] l.pc = "@atu_got_user" ->
            IF l.rv = 0 THEN Return(l, Failure("user_not_found"))
            ELSE IF l.a.amount # 0
                 THEN CallRepo([l EXCEPT !.user = l.rv], "add_coins", l.im[l.rv].id,
                               l.a.amount, "@atu_added")
                 ELSE [l EXCEPT !.user = l.rv, !.pc = "@atu_extend"]
      [] l.pc = "@atu_added" ->
            IF l.a.days = 0 THEN Return(l, IF l.rv # 0 THEN Success
                                           ELSE Failure("operation_failed"))
            ELSE Query([l EXCEPT !.res.error = IF l.rv # 0 THEN "" ELSE "operation_failed"],
                       "get_user_by_id", l.im[l.user].id, NULL, "@atu_reloaded")
      [] l.pc = "@atu_reloaded" ->
            IF l.rv = 0 THEN Raise(l, "AttributeError")
            ELSE [l EXCEPT !.user = l.rv, !.pc = "@atu_extend"]
      [] l.pc = "@atu_extend" ->
            CallRepo(l, "extend_subscription", l.im[l.user].id, l.a.days, "@atu_extended")
      [] l.pc = "@atu_extended" ->
            IF l.rv # 0 /\ l.res.error = "" THEN Return(l, Success)
            ELSE Return(l, Failure("operation_failed"))

\* handlers/admin.py: add_referral_earnings, the command
\* /add_referral_earnings <tg_id|user_hash> <amount>.  An identifier of digits is
\* a Telegram id (a.tg_id), any other is a hash (a.user_hash).
admin_add_referral_earnings_local(l, today) ==
    CASE l.pc = "@admin_add_referral_earnings" ->
            IF l.a.tg_id # 0
            THEN Query(l, "get_user_by_tg_id", l.a.tg_id, NULL, "@are_got_user")
            ELSE Query(l, "get_user_by_hash", 0, l.a.user_hash, "@are_got_user")
      [] l.pc = "@are_got_user" ->
            IF l.rv = 0 THEN Return(l, Failure("user_not_found"))
            ELSE CallRepo([l EXCEPT !.user = l.rv], "add_referral_earnings", l.im[l.rv].id,
                          l.a.amount, "@are_added")
      [] l.pc = "@are_added" ->
            IF l.rv = 0 THEN Return(l, Failure("operation_failed"))
            ELSE Return(l, [Success EXCEPT !.id = l.rv, !.user = l.im[l.rv]])

\* handlers/admin.py: the three commands from the text of the message.  a.text
\* is what follows the command's word, so that split(a.text) is
\* message.text.split()[1:].  A wrong number of arguments and a ValueError of
\* int() are answered with the usage text.
command_local(l, today) ==
    LET args == split(l.a.text) IN
    CASE l.pc = "@/add_to_user" ->
            IF Len(args) # 3 THEN Return(l, Failure("usage"))
            ELSE LET tg_id == int(args[1])
                     coins == int(args[2])
                     days == int(args[3])
                 IN  IF ~tg_id.ok \/ ~coins.ok \/ ~days.ok THEN Return(l, Failure("usage"))
                     ELSE [l EXCEPT !.a.tg_id = tg_id.val, !.a.amount = coins.val,
                                    !.a.days = days.val, !.pc = "@add_to_user"]
      [] l.pc = "@/add_referral_earnings" ->
            IF Len(args) # 2 THEN Return(l, Failure("usage"))
            ELSE LET amount == int(args[2]) IN
                 IF ~amount.ok THEN Return(l, Failure("usage"))
                 ELSE [l EXCEPT !.a.amount = amount.val, !.ret = "@are_got_user",
                                !.pc = "@find_user"]
      [] l.pc = "@/set_referral_percentage" ->
            IF Len(args) # 2 THEN Return(l, Failure("usage"))
            ELSE LET percentage == int(args[2]) IN
                 IF ~percentage.ok THEN Return(l, Failure("usage"))
                 ELSE IF percentage.val < 0 \/ percentage.val > 100
                      THEN Return(l, Failure("percentage_range"))
                 ELSE [l EXCEPT !.a.amount = percentage.val, !.ret = "@srp_got_user",
                                !.pc = "@find_user"]
      \* handlers/user.py: cmd_start.  The second word of "/start <hash>", if
      \* there is one, is the inviter's hash.
      [] l.pc = "@/start" ->
            [l EXCEPT !.a.invited_by_hash = IF Len(args) > 0 THEN Str(args[1]) ELSE NULL,
                      !.pc = "@get_or_create_user"]
      \* find the user by tg_id or by user_hash
      [] l.pc = "@find_user" ->
            IF isdigit(args[1])
            THEN LET tg_id == int(args[1]) IN
                 IF ~tg_id.ok THEN Return(l, Failure("usage"))
                 ELSE Query(l, "get_user_by_tg_id", tg_id.val, NULL, l.ret)
            ELSE Query(l, "get_user_by_hash", 0, Str(args[1]), l.ret)
      [] l.pc = "@srp_got_user" ->
            IF l.rv = 0 THEN Return(l, Failure("user_not_found"))
            ELSE CallRepo([l EXCEPT !.user = l.rv], "update_referral_percentage",
                          l.im[l.rv].id, l.a.amount, "@srp_updated")
      [] l.pc = "@srp_updated" ->
            IF l.rv = 0 THEN Return(l, Failure("operation_failed"))
            ELSE Return(l, [Success EXCEPT !.id = l.rv, !.user = l.im[l.rv]])

-----------------------------------------------------------------------------
(* db/requests_db.py: UserRepository called on its own, one session per call *)

RepoArg(a) ==
    CASE a.op \in {"extend_subscription", "update_subscription"} -> a.days
      [] a.op \in {"update_user", "increment_invited_count"} -> 0
      [] OTHER -> a.amount

repository_local(l, today) ==
    CASE l.pc = "@repository" ->
            CallRepo(l, l.a.op, l.a.user_id, RepoArg(l.a), "@repo_return")
      [] l.pc = "@repo_return" ->
            IF l.rv = 0 THEN Return(l, NoResult)
            ELSE Return(l, [Success EXCEPT !.id = l.rv, !.user = l.im[l.rv]])
      [] l.pc = "@create_user" ->
            [l EXCEPT !.pc = "create_commit", !.ret = "@repo_return",
                      !.new = User(0, l.a.tg_id, l.a.username, l.a.user_hash,
                                   l.a.invited_by_hash, l.a.amount,
                                   today + DEFAULT_SUBSCRIPTION_DAYS)]
      [] l.pc = "@delete_user" ->
            Query(l, "get_user_by_id", l.a.user_id, NULL, "@del_got_user")
      [] l.pc = "@del_got_user" ->
            IF l.rv = 0 THEN Return(l, NoResult) ELSE [l EXCEPT !.pc = "delete_cascade"]
      [] l.pc = "@del_done" -> Return(l, Success)
      \* the mutator's object is loaded: assign, then commit
      [] l.pc = "@m_loaded" ->
            IF l.rv = 0 THEN [l EXCEPT !.pc = l.ret]
            ELSE IF Overflows(l.m, l.im[l.rv], today) THEN Raise(l, "OverflowError")
            ELSE [l EXCEPT !.new = l.im[l.rv], !.im[l.rv] = Mutate(l.m, l.im[l.rv], today),
                           !.pc = "m_commit"]

-----------------------------------------------------------------------------
(* db/requests_db.py: TransactionRepository and UsageRepository *)

RECURSIVE SumCoinsUsed(_)
SumCoinsUsed(records) ==
    IF records = {} THEN 0
    ELSE LET r == CHOOSE x \in records : TRUE
         IN  r.coins_used + SumCoinsUsed(records \ {r})

\* The dictionary get_usage_stats builds from the records selected.
usage_stats(days, records) ==
    [period_days |-> days,
     total_usages |-> Cardinality(records),
     total_coins_used |-> SumCoinsUsed(records),
     average_per_usage |-> IF records # {}
                           THEN <<SumCoinsUsed(records), Cardinality(records)>>
                           ELSE 0]

\* the number of the transactions in place of their sum
CountTransactions(transactions) == Cardinality(transactions)

\* "sum(t.amount for t in transactions)"
RECURSIVE SumAmounts(_)
SumAmounts(transactions) ==
    IF transactions = {} THEN 0
    ELSE LET t == CHOOSE x \in transactions : TRUE
         IN  t.amount + SumAmounts(transactions \ {t})

ledger_local(l, today) ==
    CASE l.pc = "@create_transaction" ->
            [l EXCEPT !.transaction = Transaction(0, l.a.user_id, l.a.amount,
                                                  l.a.description, <<>>),
                      !.pc = "tx_commit", !.ret = "@ledger_return"]
      [] l.pc = "@create_usage" ->
            [l EXCEPT !.usage = Usage(0, l.a.user_id, l.a.amount, <<>>),
                      !.pc = "us_commit", !.ret = "@ledger_return"]
      [] l.pc = "@ledger_return" -> Return(l, [Success EXCEPT !.id = l.rv])
      [] l.pc = "@delete_transaction" ->
            Query(l, "get_transaction_by_id", l.a.row_id, NULL, "@dtx_got")
      [] l.pc = "@dtx_got" ->
            IF l.rv = 0 THEN Return(l, NoResult) ELSE [l EXCEPT !.pc = "tx_delete_commit"]
      [] l.pc = "@delete_usage" ->
            Query(l, "get_usage_by_id", l.a.row_id, NULL, "@dus_got")
      [] l.pc = "@dus_got" ->
            IF l.rv = 0 THEN Return(l, NoResult) ELSE [l EXCEPT !.pc = "us_delete_commit"]
      [] l.pc = "@row_deleted" -> Return(l, Success)
      [] l.pc = "@get_usage_stats" ->
            IF ~InRange(today - l.a.days) THEN Raise(l, "OverflowError")
            ELSE [l EXCEPT !.qi = l.a.user_id,
                           !.qt = StorageFormat(today - l.a.days, l.a.micro),
                           !.pc = "usage_stats_select", !.ret = "@gus_selected"]
      [] l.pc = "@gus_selected" ->
            Return(l, [Success EXCEPT !.stats = usage_stats(l.a.days, l.usage_records)])
      [] l.pc = "@get_user_balance" ->
            [l EXCEPT !.qi = l.a.user_id, !.pc = "balance_select", !.ret = "@gub_selected"]
      [] l.pc = "@gub_selected" ->
            Return(l, [Success EXCEPT !.balance = SumAmounts(l.transactions)])

LedgerLabels == {"@create_transaction", "@create_usage", "@ledger_return",
                 "@delete_transaction", "@dtx_got", "@delete_usage", "@dus_got",
                 "@row_deleted", "@get_usage_stats", "@gus_selected",
                 "@get_user_balance", "@gub_selected"}

GocLabels == {"@get_or_create_user", "@goc_got_user", "@goc_got_inviter", "@goc_create",
              "@goc_created", "@goc_incremented", "@goc_return"}
PrpLabels == {"@process_referral_payment", "@prp_got_user", "@prp_added", "@prp_extended",
              "@prp_got_referrer", "@prp_credited"}
AtuLabels == {"@add_to_user", "@atu_got_user", "@atu_added", "@atu_reloaded", "@atu_extend",
              "@atu_extended"}
AreLabels == {"@admin_add_referral_earnings", "@are_got_user", "@are_added"}
CommandLabels == {"@/start", "@/add_to_user", "@/add_referral_earnings", "@/set_referral_percentage",
                  "@find_user", "@srp_got_user", "@srp_updated"}
RepoLabels == {"@repository", "@repo_return", "@create_user", "@delete_user", "@del_got_user",
               "@del_done", "@m_loaded"}
AwaitLabels == {"get_user_by_tg_id", "get_user_by_hash", "get_user_by_id", "m_select",
                "m_commit", "m_refresh", "create_commit", "create_refresh", "delete_cascade",
                "delete_commit", "tx_commit", "tx_refresh", "get_transaction_by_id",
                "tx_delete_commit", "us_commit", "us_refresh", "get_usage_by_id",
                "us_delete_commit", "usage_stats_select", "balance_select"}

Local(l, today) ==
    CASE l.pc \in GocLabels -> get_or_create_user_local(l, today)
      [] l.pc \in PrpLabels -> process_referral_payment_local(l, today)
      [] l.pc \in AtuLabels -> add_to_user_local(l, today)
      [] l.pc \in AreLabels -> admin_add_referral_earnings_local(l, today)
      [] l.pc \in CommandLabels -> command_local(l, today)
      [] l.pc \in RepoLabels -> repository_local(l, today)
      [] l.pc \in LedgerLabels -> ledger_local(l, today)

\* Run the handler's code up to its next await, or to its end.
RECURSIVE Settle(_, _)
Settle(l, today) ==
    IF l.pc \in AwaitLabels \/ l.pc = "done" THEN l ELSE Settle(Local(l, today), today)

-----------------------------------------------------------------------------
(* One store call of a session: the SELECTs, and commit() and refresh() *)

\* The UPDATE a flush emits sets the columns whose value in memory differs from
\* the value loaded, and no others.
Flush(row, obj, loaded) ==
    [id |-> IF obj.id # loaded.id THEN obj.id ELSE row.id,
     tg_id |-> IF obj.tg_id # loaded.tg_id THEN obj.tg_id ELSE row.tg_id,
     username |-> IF obj.username # loaded.username THEN obj.username ELSE row.username,
     user_hash |-> IF obj.user_hash # loaded.user_hash THEN obj.user_hash ELSE row.user_hash,
     invited_count |-> IF obj.invited_count # loaded.invited_count
                       THEN obj.invited_count ELSE row.invited_count,
     invited_by_hash |-> IF obj.invited_by_hash # loaded.invited_by_hash
                         THEN obj.invited_by_hash ELSE row.invited_by_hash,
     coins |-> IF obj.coins # loaded.coins THEN obj.coins ELSE row.coins,
     referral_earnings |-> IF obj.referral_earnings # loaded.referral_earnings
                           THEN obj.referral_earnings ELSE row.referral_earnings,
     referral_percentage |-> IF obj.referral_percentage # loaded.referral_percentage
                             THEN obj.referral_percentage ELSE row.referral_percentage,
     subscription_until |-> IF obj.subscription_until # loaded.subscription_until
                            THEN obj.subscription_until ELSE row.subscription_until]

\* The row (or the object of the identity map) with key id is replaced by row,
\* under the key row holds: the same key unless the UPDATE sets the primary key.
Rekey(users, id, row) ==
    [i \in (DOMAIN users \ {id}) \cup {row.id} |-> IF i = row.id THEN row ELSE users[i]]

Unchanged(d, l) == [db |-> d, l |-> l]

NoCascade(rows, user_id) == {}

\* The rows of a child table that belong to a user: what the relationship
\* (cascade="all, delete-orphan") loads when the user is deleted.
Children(rows, user_id) == {rows[k] : k \in {j \in DOMAIN rows : rows[j].user_id = user_id}}

Without(rows, ids) == [k \in DOMAIN rows \ ids |-> rows[k]]

Await(d, l, today) ==
    CASE l.pc = "get_user_by_tg_id" ->
            Unchanged(d, Load(d, l, {i \in DOMAIN d.users : d.users[i].tg_id = l.qi}))
      [] l.pc = "get_user_by_hash" ->
            Unchanged(d, Load(d, l, {i \in DOMAIN d.users : d.users[i].user_hash = l.qs}))
      [] l.pc = "get_user_by_id" ->
            Unchanged(d, Load(d, l, {i \in DOMAIN d.users : i = l.qi}))
      [] l.pc = "m_select" ->
            Unchanged(d, [Load(d, l, {i \in DOMAIN d.users : i = l.m.id})
                              EXCEPT !.pc = "@m_loaded"])
      [] l.pc = "m_commit" ->
            LET id == l.m.id
                obj == l.im[id]
            IN  IF obj = l.new THEN Unchanged(d, [l EXCEPT !.pc = "m_refresh"])
                ELSE IF id \notin DOMAIN d.users THEN Unchanged(d, Raise(l, "StaleDataError"))
                ELSE LET row == Flush(d.users[id], obj, l.new)
                     IN  IF \/ UniqueViolation(d.users, id, row.tg_id, row.user_hash)
                            \/ PrimaryKeyViolation(d.users, id, row.id)
                         THEN Unchanged(d, Raise(l, "IntegrityError"))
                         ELSE [db |-> [d EXCEPT !.users = Rekey(d.users, id, row)],
                               l |-> [l EXCEPT !.im = Rekey(l.im, id, obj),
                                               !.m.id = row.id, !.pc = "m_refresh"]]
      [] l.pc = "m_refresh" ->
            IF l.m.id \notin DOMAIN d.users
            THEN Unchanged(d, Raise(l, "InvalidRequestError"))
            ELSE Unchanged(d, [l EXCEPT !.im[l.m.id] = d.users[l.m.id], !.rv = l.m.id,
                                        !.pc = l.ret])
      [] l.pc = "create_commit" ->
            IF UniqueViolation(d.users, 0, l.new.tg_id, l.new.user_hash)
            THEN Unchanged(d, Raise(l, "IntegrityError"))
            ELSE LET id == NextId(d.users)
                     row == [l.new EXCEPT !.id = id]
                 IN [db |-> [d EXCEPT !.users = (id :> row) @@ d.users],
                     l |-> [l EXCEPT !.rv = id, !.im = (id :> row) @@ l.im,
                                     !.pc = "create_refresh"]]
      [] l.pc = "create_refresh" ->
            IF l.rv \notin DOMAIN d.users
            THEN Unchanged(d, Raise(l, "InvalidRequestError"))
            ELSE Unchanged(d, [l EXCEPT !.im = (l.rv :> d.users[l.rv]) @@ l.im,
                                        !.pc = l.ret])
      \* await session.delete(user): the cascade loads the user's children
      [] l.pc = "delete_cascade" ->
            Unchanged(d, [l EXCEPT !.transactions = Children(d.transactions, l.rv),
                                   !.usage_records = Children(d.usage, l.rv),
                                   !.pc = "delete_commit"])
      [] l.pc = "delete_commit" ->
            [db |-> [d EXCEPT !.users = Without(d.users, {l.rv}),
                              !.transactions =
                                  Without(d.transactions, {r.id : r \in l.transactions}),
                              !.usage = Without(d.usage, {r.id : r \in l.usage_records})],
             l |-> [l EXCEPT !.pc = "@del_done"]]
      [] l.pc = "tx_commit" ->
            LET id == NextId(d.transactions)
                row == [l.transaction EXCEPT !.id = id,
                                             !.created_at = CurrentTimestamp(today)]
            IN [db |-> [d EXCEPT !.transactions = (id :> row) @@ d.transactions],
                l |-> [l EXCEPT !.rv = id, !.pc = "tx_refresh"]]
      [] l.pc = "tx_refresh" ->
            IF l.rv \notin DOMAIN d.transactions
            THEN Unchanged(d, Raise(l, "InvalidRequestError"))
            ELSE Unchanged(d, [l EXCEPT !.transaction = d.transactions[l.rv], !.pc = l.ret])
      [] l.pc = "get_transaction_by_id" ->
            Unchanged(d, [l EXCEPT !.rv = IF l.qi \in DOMAIN d.transactions THEN l.qi ELSE 0,
                                   !.pc = l.ret])
      [] l.pc = "tx_delete_commit" ->
            [db |-> [d EXCEPT !.transactions = Without(d.transactions, {l.rv})],
             l |-> [l EXCEPT !.pc = "@row_deleted"]]
      [] l.pc = "us_commit" ->
            LET id == NextId(d.usage)
                row == [l.usage EXCEPT !.id = id, !.used_at = CurrentTimestamp(today)]
            IN [db |-> [d EXCEPT !.usage = (id :> row) @@ d.usage],
                l |-> [l EXCEPT !.rv = id, !.pc = "us_refresh"]]
      [] l.pc = "us_refresh" ->
            IF l.rv \notin DOMAIN d.usage
            THEN Unchanged(d, Raise(l, "InvalidRequestError"))
            ELSE Unchanged(d, [l EXCEPT !.usage = d.usage[l.rv], !.pc = l.ret])
      [] l.pc = "get_usage_by_id" ->
            Unchanged(d, [l EXCEPT !.rv = IF l.qi \in DOMAIN d.usage THEN l.qi ELSE 0,
                                   !.pc = l.ret])
      [] l.pc = "us_delete_commit" ->
            [db |-> [d EXCEPT !.usage = Without(d.usage, {l.rv})],
             l |-> [l EXCEPT !.pc = "@row_deleted"]]
      \* select(Usage).where(Usage.user_id == user_id, Usage.used_at >= start_date)
      [] l.pc = "usage_stats_select" ->
            Unchanged(d, [l EXCEPT !.usage_records =
                                       {r \in Children(d.usage, l.qi) : TextGE(r.used_at, l.qt)},
                                   !.pc = l.ret])
      \* select(Transaction).where(Transaction.user_id == user_id)
      [] l.pc = "balance_select" ->
            Unchanged(d, [l EXCEPT !.transactions = Children(d.transactions, l.qi),
                                   !.pc = l.ret])

\* One step of a handler: its pending store call, then its code up to the next one.
StepOf(d, l, today) ==
    LET r == Await(d, l, today) IN [db |-> r.db, l |-> Settle(r.l, today)]

\* A handler run from its pending store call to its end with no other handler
\* in between.
RECURSIVE RunToEnd(_, _, _)
RunToEnd(d, l, today) ==
    IF l.pc = "done" THEN [db |-> d, l |-> l]
    ELSE LET r == StepOf(d, l, today) IN RunToEnd(r.db, r.l, today)

EntryLabel(a) ==
    CASE a.op \in {"get_or_create_user", "process_referral_payment", "add_to_user",
                   "admin_add_referral_earnings", "create_user", "delete_user",
                   "create_transaction", "delete_transaction", "create_usage",
                   "delete_usage", "get_usage_stats", "get_user_balance", "/start", "/add_to_user",
                   "/add_referral_earnings", "/set_referral_percentage"} ->
            "@" \o a.op
      [] OTHER -> "@repository"

\* The handler is entered and runs to its first await.
Enter(a, today) == Settle([Idle EXCEPT !.pc = EntryLabel(a), !.a = a], today)


-----------------------------------------------------------------------------
(* Inputs *)

Usernames == {"alice"}
InviterHashes == {NULL, UnknownHash} \cup {generate_user_hash(t) : t \in TgIds}
CoinAmounts == {1, -3}
HugeDays == 2 * MaxDate + 1      \* a timedelta no expiry date can take
DayAmounts == {-4, 1, HugeDays}
PaymentAmounts == {-150, 1000}
Percentages == {0, 33, 100}

Args(op) == [NoArgs EXCEPT !.op = op]

NoCall == [a |-> NoArgs, pre |-> EmptyDb, res |-> NoResult, today |-> 0]

Init ==
    /\ db = EmptyDb
    /\ now = 0
    /\ last = NoCall
    /\ procs = [p \in Procs |-> Idle]
    /\ calls = 0
    /\ hist = <<>>

\* The clock advances.
Tick ==
    /\ now < MaxNow
    /\ now' = now + 1
    /\ UNCHANGED <<db, last, procs, calls, hist>>

-----------------------------------------------------------------------------
(* Sequential behaviours: every call runs to its end before the next starts *)

\* The handler called with arguments a runs from its entry to its end.
Call(a) ==
    LET r == RunToEnd(db, Enter(a, now), now)
    IN  /\ db' = r.db
        /\ last' = [a |-> a, pre |-> db, res |-> r.l.res, today |-> now]

get_or_create_user ==
    /\ calls < MaxCalls
    /\ \E t \in TgIds, u \in Usernames, h \in InviterHashes :
          Call([Args("get_or_create_user") EXCEPT !.tg_id = t, !.username = u,
               !.invited_by_hash = h])
    /\ calls' = calls + 1
    /\ UNCHANGED <<now, procs, hist>>

process_referral_payment ==
    /\ calls < MaxCalls
    /\ \E i \in Ids, c \in {5}, d \in DayAmounts, p \in PaymentAmounts :
          Call([Args("process_referral_payment") EXCEPT !.user_id = i, !.amount = c,
               !.days = d, !.payment = p])
    /\ calls' = calls + 1
    /\ UNCHANGED <<now, procs, hist>>

add_to_user ==
    /\ calls < MaxCalls
    /\ \E t \in TgIds, c \in {0, 5}, d \in {0} \cup DayAmounts :
          Call([Args("add_to_user") EXCEPT !.tg_id = t, !.amount = c, !.days = d])
    /\ calls' = calls + 1
    /\ UNCHANGED <<now, procs, hist>>

add_coins ==
    /\ calls < MaxCalls
    /\ \E i \in Ids, c \in CoinAmounts :
          Call([Args("add_coins") EXCEPT !.user_id = i, !.amount = c])
    /\ calls' = calls + 1
    /\ UNCHANGED <<now, procs, hist>>

extend_subscription ==
    /\ calls < MaxCalls
    /\ \E i \in Ids, d \in DayAmounts :
          Call([Args("extend_subscription") EXCEPT !.user_id = i, !.days = d])
    /\ calls' = calls + 1
    /\ UNCHANGED <<now, procs, hist>>

update_subscription ==
    /\ calls < MaxCalls
    /\ \E i \in Ids, d \in DayAmounts :
          Call([Args("update_subscription") EXCEPT !.user_id = i, !.days = d])
    /\ calls' = calls + 1
    /\ UNCHANGED <<now, procs, hist>>

update_referral_percentage ==
    /\ calls < MaxCalls
    /\ \E i \in Ids, p \in Percentages :
          Call([Args("update_referral_percentage") EXCEPT !.user_id = i, !.amount = p])
    /\ calls' = calls + 1
    /\ UNCHANGED <<now, procs, hist>>

update_user ==
    /\ calls < MaxCalls
    /\ \E i \in Ids, h \in InviterHashes \ {UnknownHash} :
          Call([Args("update_user") EXCEPT !.user_id = i,
               !.kwargs = <<Kw("invited_by_hash", 0, h)>>])
    /\ calls' = calls + 1
    /\ UNCHANGED <<now, procs, hist>>

delete_user ==
    /\ calls < MaxCalls
    /\ \E i \in Ids :
          Call([Args("delete_user") EXCEPT !.user_id = i])
    /\ calls' = calls + 1
    /\ UNCHANGED <<now, procs, hist>>

Next ==
    \/ Tick
    \/ get_or_create_user
    \/ process_referral_payment
    \/ add_to_user
    \/ add_coins
    \/ extend_subscription
    \/ update_subscription
    \/ update_referral_percentage
    \/ update_user
    \/ delete_user

Spec == Init /\ [][Next]_vars


-----------------------------------------------------------------------------
(* Concurrent behaviours: handlers run as asyncio tasks, each in its own    *)
(* session, and interleave at every await of a store call.                  *)

Free(p) == procs[p].pc = "idle"

\* A handler may start in the first free task slot.
MayBegin(p) ==
    /\ Free(p)
    /\ \A q \in Procs : q < p => ~Free(q)
    /\ calls < MaxConcCalls

\* The handler called with arguments a runs to its first await.
Begin(p, a) == procs' = [procs EXCEPT ![p] = Enter(a, now)]

begin_get_or_create_user(p) ==
    /\ MayBegin(p)
    /\ \E t \in TgIds, h \in {NULL, generate_user_hash(42)} :
          Begin(p, [Args("get_or_create_user") EXCEPT !.tg_id = t, !.username = "alice",
                                                      !.invited_by_hash = h])
    /\ calls' = calls + 1
    /\ UNCHANGED <<db, now, last, hist>>

begin_add_coins(p) ==
    /\ MayBegin(p)
    /\ Begin(p, [Args("add_coins") EXCEPT !.user_id = 1, !.amount = 1])
    /\ calls' = calls + 1
    /\ UNCHANGED <<db, now, last, hist>>

begin_delete_user(p) ==
    /\ MayBegin(p)
    /\ Begin(p, [Args("delete_user") EXCEPT !.user_id = 1])
    /\ calls' = calls + 1
    /\ UNCHANGED <<db, now, last, hist>>

\* The pending store call of one handler, and its code up to the next await.
Step(p) ==
    /\ ~Free(p)
    /\ LET r == StepOf(db, procs[p], now)
       IN  /\ db' = r.db
           /\ IF r.l.pc = "done"
              THEN /\ procs' = [procs EXCEPT ![p] = Idle]
                   /\ hist' = Append(hist, [a |-> r.l.a, res |-> r.l.res])
              ELSE /\ procs' = [procs EXCEPT ![p] = r.l]
                   /\ hist' = hist
    /\ UNCHANGED <<now, last, calls>>

NextConc ==
    \E p \in Procs :
        \/ begin_get_or_create_user(p)
        \/ begin_add_coins(p)
        \/ begin_delete_user(p)
        \/ Step(p)

SpecConc == Init /\ [][NextConc]_vars

Quiescent == \A p \in Procs : Free(p)


-----------------------------------------------------------------------------
(* Payments: registrations, referral percentages and payments, one at a time *)

PaymentRange == {-150, -7, 0, 7, 1000}

pay_register ==
    /\ calls < MaxPayCalls
    /\ \E t \in TgIds, h \in {NULL, generate_user_hash(42)} :
          Call([Args("get_or_create_user") EXCEPT !.tg_id = t, !.username = "alice",
               !.invited_by_hash = h])
    /\ calls' = calls + 1
    /\ UNCHANGED <<now, procs, hist>>

pay_set_percentage ==
    /\ calls < MaxPayCalls
    /\ \E i \in Ids, p \in Percentages :
          Call([Args("update_referral_percentage") EXCEPT !.user_id = i, !.amount = p])
    /\ calls' = calls + 1
    /\ UNCHANGED <<now, procs, hist>>

pay_process ==
    /\ calls < MaxPayCalls
    /\ \E i \in Ids, c \in {5, 50}, d \in {1, 30}, p \in PaymentRange :
          Call([Args("process_referral_payment") EXCEPT !.user_id = i, !.amount = c,
               !.days = d, !.payment = p])
    /\ calls' = calls + 1
    /\ UNCHANGED <<now, procs, hist>>

NextPay == pay_register \/ pay_set_percentage \/ pay_process

SpecPay == Init /\ [][NextPay]_vars


-----------------------------------------------------------------------------
(* The repository: every method of UserRepository that writes a row, called  *)
(* on its own, beside registrations, payments and the admin's commands.  One *)
(* call at a time.  Amounts stay within the range of the INTEGER columns.    *)

\* The field sets update_user is called with.
UpdateKwargs ==
    {<<Kw("tg_id", 43, NULL)>>,
     <<Kw("user_hash", 0, generate_user_hash(43))>>,
     <<Kw("id", 2, NULL)>>,
     <<Kw("invited_by_hash", 0, generate_user_hash(43))>>,
     <<Kw("referral_earnings", 9, NULL)>>,
     <<Kw("nickname", 0, "bob")>>,
     <<Kw("coins", 7, NULL), Kw("nickname", 0, "bob")>>}

repo_register ==
    /\ calls < MaxRepoCalls
    /\ \E t \in TgIds, h \in {NULL} \cup {generate_user_hash(x) : x \in TgIds} :
          Call([Args("get_or_create_user") EXCEPT !.tg_id = t, !.username = "alice",
               !.invited_by_hash = h])
    /\ calls' = calls + 1
    /\ UNCHANGED <<now, procs, hist>>

create_user ==
    /\ calls < MaxRepoCalls
    /\ \E t \in TgIds, h \in {generate_user_hash(x) : x \in TgIds} :
          Call([Args("create_user") EXCEPT !.tg_id = t, !.username = "alice",
               !.user_hash = h, !.amount = DEFAULT_COINS])
    /\ calls' = calls + 1
    /\ UNCHANGED <<now, procs, hist>>

repo_update_user ==
    /\ calls < MaxRepoCalls
    /\ \E i \in Ids, kw \in UpdateKwargs :
          Call([Args("update_user") EXCEPT !.user_id = i, !.kwargs = kw])
    /\ calls' = calls + 1
    /\ UNCHANGED <<now, procs, hist>>

repo_coins ==
    /\ calls < MaxRepoCalls
    /\ \E op \in {"add_coins", "subtract_coins"}, i \in Ids, c \in {-3, 5} :
          Call([Args(op) EXCEPT !.user_id = i, !.amount = c])
    /\ calls' = calls + 1
    /\ UNCHANGED <<now, procs, hist>>

add_referral_earnings ==
    /\ calls < MaxRepoCalls
    /\ \E i \in Ids, c \in {-2, 4} :
          Call([Args("add_referral_earnings") EXCEPT !.user_id = i, !.amount = c])
    /\ calls' = calls + 1
    /\ UNCHANGED <<now, procs, hist>>

increment_invited_count ==
    /\ calls < MaxRepoCalls
    /\ \E i \in Ids :
          Call([Args("increment_invited_count") EXCEPT !.user_id = i])
    /\ calls' = calls + 1
    /\ UNCHANGED <<now, procs, hist>>

repo_percentage ==
    /\ calls < MaxRepoCalls
    /\ \E i \in Ids, p \in {33, 150} :
          Call([Args("update_referral_percentage") EXCEPT !.user_id = i, !.amount = p])
    /\ calls' = calls + 1
    /\ UNCHANGED <<now, procs, hist>>

repo_subscription ==
    /\ calls < MaxRepoCalls
    /\ \E op \in {"extend_subscription", "update_subscription"}, i \in Ids,
          d \in {1, HugeDays} :
          Call([Args(op) EXCEPT !.user_id = i, !.days = d])
    /\ calls' = calls + 1
    /\ UNCHANGED <<now, procs, hist>>

repo_payment ==
    /\ calls < MaxRepoCalls
    /\ \E i \in Ids, p \in {1000} :
          Call([Args("process_referral_payment") EXCEPT !.user_id = i, !.amount = 5,
               !.days = 1, !.payment = p])
    /\ calls' = calls + 1
    /\ UNCHANGED <<now, procs, hist>>

admin_add_referral_earnings ==
    /\ calls < MaxRepoCalls
    /\ \E t \in TgIds \cup {0}, c \in {4} :
          Call([Args("admin_add_referral_earnings") EXCEPT
               !.tg_id = t, !.amount = c,
               !.user_hash = IF t = 0 THEN generate_user_hash(42) ELSE NULL])
    /\ calls' = calls + 1
    /\ UNCHANGED <<now, procs, hist>>

repo_add_to_user ==
    /\ calls < MaxRepoCalls
    /\ \E t \in TgIds, c \in {5}, d \in {1} :
          Call([Args("add_to_user") EXCEPT !.tg_id = t, !.amount = c, !.days = d])
    /\ calls' = calls + 1
    /\ UNCHANGED <<now, procs, hist>>

NextRepo ==
    \/ repo_register
    \/ create_user
    \/ repo_update_user
    \/ repo_coins
    \/ add_referral_earnings
    \/ increment_invited_count
    \/ repo_percentage
    \/ repo_subscription
    \/ repo_payment
    \/ admin_add_referral_earnings
    \/ repo_add_to_user

SpecRepo == Init /\ [][NextRepo]_vars

-----------------------------------------------------------------------------
(* The ledger: transactions, usage records and the users that own them, one  *)
(* call at a time.  No foreign key is enforced (SQLite's default), so a      *)
(* record may name a user that does not exist.                               *)

ledger_register ==
    /\ calls < MaxLedgerCalls
    /\ Call([Args("get_or_create_user") EXCEPT !.tg_id = 42, !.username = "alice"])
    /\ calls' = calls + 1
    /\ UNCHANGED <<now, procs, hist>>

create_transaction ==
    /\ calls < MaxLedgerCalls
    /\ \E i \in Ids, c \in {5} :
          Call([Args("create_transaction") EXCEPT !.user_id = i, !.amount = c,
               !.description = "grant"])
    /\ calls' = calls + 1
    /\ UNCHANGED <<now, procs, hist>>

delete_transaction ==
    /\ calls < MaxLedgerCalls
    /\ \E k \in {1, 2} :
          Call([Args("delete_transaction") EXCEPT !.row_id = k])
    /\ calls' = calls + 1
    /\ UNCHANGED <<now, procs, hist>>

create_usage ==
    /\ calls < MaxLedgerCalls
    /\ \E i \in Ids, c \in {1, 3} :
          Call([Args("create_usage") EXCEPT !.user_id = i, !.amount = c])
    /\ calls' = calls + 1
    /\ UNCHANGED <<now, procs, hist>>

delete_usage ==
    /\ calls < MaxLedgerCalls
    /\ \E k \in {1} :
          Call([Args("delete_usage") EXCEPT !.row_id = k])
    /\ calls' = calls + 1
    /\ UNCHANGED <<now, procs, hist>>

ledger_delete_user ==
    /\ calls < MaxLedgerCalls
    /\ \E i \in {1} :
          Call([Args("delete_user") EXCEPT !.user_id = i])
    /\ calls' = calls + 1
    /\ UNCHANGED <<now, procs, hist>>

\* micro: whether datetime.utcnow() falls on a whole second (0) or not (1)
get_usage_stats ==
    /\ calls < MaxLedgerCalls
    /\ \E i \in {1}, d \in {0, 1}, f \in {0, 1} :
          Call([Args("get_usage_stats") EXCEPT !.user_id = i, !.days = d, !.micro = f])
    /\ calls' = calls + 1
    /\ UNCHANGED <<now, procs, hist>>

NextLedger ==
    \/ Tick
    \/ ledger_register
    \/ create_transaction
    \/ delete_transaction
    \/ create_usage
    \/ delete_usage
    \/ ledger_delete_user
    \/ get_usage_stats

SpecLedger == Init /\ [][NextLedger]_vars

-----------------------------------------------------------------------------
(* The admin's commands as messages: the handler reads its arguments from the *)
(* text.  One message at a time.                                              *)

\* The words of a text, one space between them
RECURSIVE Words(_)
Words(ws) ==
    IF ws = <<>> THEN <<>>
    ELSE IF Len(ws) = 1 THEN ws[1]
    ELSE ws[1] \o <<" ">> \o Words(Tail(ws))

W42 == <<"4", "2">>
WHash42 == <<"7", "3", "4", "7", "5", "c", "b", "4", "0", "a", "5", "6">>
WSup2 == <<"sup2">>
WWord == <<"x">>
WFraction == <<"1", ".", "5">>

AddToUserTexts ==
    {Words(<<W42, <<"5">>, <<"1">>>>),
     <<" ">> \o W42 \o <<" ", " ">> \o <<"+", "5">> \o <<" ">> \o <<"0">>,
     Words(<<W42, <<"-", "3">>, <<"0">>>>),
     Words(<<W42, <<"0">>, <<"0">>>>),
     Words(<<W42, WWord, <<"1">>>>),
     Words(<<W42, <<"5">>, WFraction>>),
     Words(<<WHash42, <<"5">>, <<"1">>>>),
     Words(<<W42, <<"5">>>>),
     Words(<<W42, <<"5">>, <<"1">>, <<"1">>>>),
     <<>>}

AddReferralEarningsTexts ==
    {Words(<<W42, <<"4">>>>),
     Words(<<WHash42, <<"4">>>>),
     Words(<<WSup2, <<"4">>>>),
     Words(<<W42, WWord>>),
     Words(<<W42>>),
     Words(<<W42, <<"4">>, <<"4">>>>)}

SetReferralPercentageTexts ==
    {Words(<<W42, <<"3", "3">>>>),
     Words(<<WHash42, <<"1", "0", "0">>>>),
     Words(<<W42, <<"1", "5", "0">>>>),
     Words(<<W42, <<"-", "1">>>>),
     Words(<<W42, WFraction>>),
     Words(<<W42>>),
     Words(<<W42, <<"3", "3">>, <<"3", "3">>>>)}

admin_register ==
    /\ calls < MaxAdminCalls
    /\ \E t \in TgIds :
          Call([Args("get_or_create_user") EXCEPT !.tg_id = t, !.username = "alice"])
    /\ calls' = calls + 1
    /\ UNCHANGED <<now, procs, hist>>

message_add_to_user ==
    /\ calls < MaxAdminCalls
    /\ \E text \in AddToUserTexts :
          Call([Args("/add_to_user") EXCEPT !.text = text])
    /\ calls' = calls + 1
    /\ UNCHANGED <<now, procs, hist>>

message_add_referral_earnings ==
    /\ calls < MaxAdminCalls
    /\ \E text \in AddReferralEarningsTexts :
          Call([Args("/add_referral_earnings") EXCEPT !.text = text])
    /\ calls' = calls + 1
    /\ UNCHANGED <<now, procs, hist>>

message_set_referral_percentage ==
    /\ calls < MaxAdminCalls
    /\ \E text \in SetReferralPercentageTexts :
          Call([Args("/set_referral_percentage") EXCEPT !.text = text])
    /\ calls' = calls + 1
    /\ UNCHANGED <<now, procs, hist>>

NextAdmin ==
    \/ admin_register
    \/ message_add_to_user
    \/ message_add_referral_earnings
    \/ message_set_referral_percentage

SpecAdmin == Init /\ [][NextAdmin]_vars

-----------------------------------------------------------------------------
(* Referrals: registrations that name the user 42 as their inviter, run as    *)
(* concurrent tasks.  The registration of 42 itself names its own hash, which *)
(* get_or_create_user discards.                                               *)

ReferTgIds == {42, 43, 44}

begin_referred(p) ==
    /\ Free(p)
    /\ \A q \in Procs : q < p => ~Free(q)
    /\ calls < MaxReferCalls
    /\ \E t \in ReferTgIds :
          Begin(p, [Args("get_or_create_user") EXCEPT !.tg_id = t, !.username = "alice",
                                                      !.invited_by_hash = generate_user_hash(42)])
    /\ calls' = calls + 1
    /\ UNCHANGED <<db, now, last, hist>>

NextRefer ==
    \E p \in Procs :
        \/ begin_referred(p)
        \/ Step(p)

SpecRefer == Init /\ [][NextRefer]_vars

-----------------------------------------------------------------------------
(* Churn: users register, with or without an inviter, users are deleted, and  *)
(* users pay.  One call at a time.                                            *)

churn_register ==
    /\ calls < MaxChurnCalls
    /\ \E t \in TgIds, h \in {NULL, generate_user_hash(42)} :
          Call([Args("get_or_create_user") EXCEPT !.tg_id = t, !.username = "alice",
               !.invited_by_hash = h])
    /\ calls' = calls + 1
    /\ UNCHANGED <<now, procs, hist>>

churn_delete_user ==
    /\ calls < MaxChurnCalls
    /\ \E i \in Ids :
          Call([Args("delete_user") EXCEPT !.user_id = i])
    /\ calls' = calls + 1
    /\ UNCHANGED <<now, procs, hist>>

churn_payment ==
    /\ calls < MaxChurnCalls
    /\ \E i \in Ids, d \in {1, HugeDays}, p \in {-150, 1000} :
          Call([Args("process_referral_payment") EXCEPT !.user_id = i, !.amount = 5,
               !.days = d, !.payment = p])
    /\ calls' = calls + 1
    /\ UNCHANGED <<now, procs, hist>>

NextChurn == churn_register \/ churn_delete_user \/ churn_payment

SpecChurn == Init /\ [][NextChurn]_vars

-----------------------------------------------------------------------------
(* The two balances of a user: the coins field and the sum of the user's      *)
(* transactions.  One call at a time.                                         *)

balance_register ==
    /\ calls < MaxBalanceCalls
    /\ Call([Args("get_or_create_user") EXCEPT !.tg_id = 42, !.username = "alice"])
    /\ calls' = calls + 1
    /\ UNCHANGED <<now, procs, hist>>

balance_coins ==
    /\ calls < MaxBalanceCalls
    /\ \E op \in {"add_coins", "subtract_coins"}, i \in {1}, c \in {1} :
          Call([Args(op) EXCEPT !.user_id = i, !.amount = c])
    /\ calls' = calls + 1
    /\ UNCHANGED <<now, procs, hist>>

balance_create_transaction ==
    /\ calls < MaxBalanceCalls
    /\ \E i \in Ids, c \in {2, -1} :
          Call([Args("create_transaction") EXCEPT !.user_id = i, !.amount = c,
               !.description = "grant"])
    /\ calls' = calls + 1
    /\ UNCHANGED <<now, procs, hist>>

balance_delete_transaction ==
    /\ calls < MaxBalanceCalls
    /\ Call([Args("delete_transaction") EXCEPT !.row_id = 1])
    /\ calls' = calls + 1
    /\ UNCHANGED <<now, procs, hist>>

balance_delete_user ==
    /\ calls < MaxBalanceCalls
    /\ Call([Args("delete_user") EXCEPT !.user_id = 1])
    /\ calls' = calls + 1
    /\ UNCHANGED <<now, procs, hist>>

get_user_balance ==
    /\ calls < MaxBalanceCalls
    /\ \E i \in Ids :
          Call([Args("get_user_balance") EXCEPT !.user_id = i])
    /\ calls' = calls + 1
    /\ UNCHANGED <<now, procs, hist>>

NextBalance ==
    \/ balance_register
    \/ balance_coins
    \/ balance_create_transaction
    \/ balance_delete_transaction
    \/ balance_delete_user
    \/ get_user_balance

SpecBalance == Init /\ [][NextBalance]_vars

-----------------------------------------------------------------------------
(* Invitations: three users register, each with no hash or with the hash of   *)
(* another, beside coins, subscription, ledger and payment operations.  One   *)
(* call at a time; no user is deleted or updated.                             *)

InviteTgIds == {42, 43, 44}

invite_register ==
    /\ calls < MaxInviteCalls
    /\ \E t \in InviteTgIds, h \in {NULL, generate_user_hash(42), generate_user_hash(43)} :
          Call([Args("get_or_create_user") EXCEPT !.tg_id = t, !.username = "alice",
               !.invited_by_hash = h])
    /\ calls' = calls + 1
    /\ UNCHANGED <<now, procs, hist>>

\* The message "/start" or "/start <hash>" of a user.
StartTexts == {<<>>, WHash42, WHash42 \o <<" ">> \o WWord}

start ==
    /\ calls < MaxInviteCalls
    /\ \E t \in {43}, u \in {"alice", "bob"}, text \in StartTexts :
          Call([Args("/start") EXCEPT !.tg_id = t, !.username = u, !.text = text])
    /\ calls' = calls + 1
    /\ UNCHANGED <<now, procs, hist>>

invite_coins ==
    /\ calls < MaxInviteCalls
    /\ \E op \in {"add_coins", "subtract_coins"} :
          Call([Args(op) EXCEPT !.user_id = 1, !.amount = 1])
    /\ calls' = calls + 1
    /\ UNCHANGED <<now, procs, hist>>

invite_subscription ==
    /\ calls < MaxInviteCalls
    /\ \E op \in {"extend_subscription", "update_subscription"} :
          Call([Args(op) EXCEPT !.user_id = 1, !.days = 1])
    /\ calls' = calls + 1
    /\ UNCHANGED <<now, procs, hist>>

invite_transaction ==
    /\ calls < MaxInviteCalls
    /\ Call([Args("create_transaction") EXCEPT !.user_id = 1, !.amount = 5,
             !.description = "grant"])
    /\ calls' = calls + 1
    /\ UNCHANGED <<now, procs, hist>>

invite_payment ==
    /\ calls < MaxInviteCalls
    /\ \E i \in Ids :
          Call([Args("process_referral_payment") EXCEPT !.user_id = i, !.amount = 5,
               !.days = 1, !.payment = 1000])
    /\ calls' = calls + 1
    /\ UNCHANGED <<now, procs, hist>>

NextInvite ==
    \/ invite_register
    \/ start
    \/ invite_coins
    \/ invite_subscription
    \/ invite_transaction
    \/ invite_payment

SpecInvite == Init /\ [][NextInvite]_vars

-----------------------------------------------------------------------------
(* Claims *)

RowsWithTg(users, tg_id) == {i \in DOMAIN users : users[i].tg_id = tg_id}

RowsWithHash(users, user_hash) == {i \in DOMAIN users : users[i].user_hash = user_hash}

Registered(op) == last.a.op = op /\ last.res.returned

\* The call of get_or_create_user recorded in last created a row.
CreatedRow ==
    /\ Registered("get_or_create_user")
    /\ RowsWithTg(last.pre.users, last.a.tg_id) = {}

\* The same registration once more, with any username and any inviter hash.
Again(u, h) ==
    RunToEnd(db, Enter([last.a EXCEPT !.username = u, !.invited_by_hash = h], now), now)

\* C1: after get_or_create_user has returned for an externalId, calling it again
\* with the same externalId (any username, any inviter hash) returns the same id
\* and leaves the store as it is: no new row, no inviter's invited_count or coins
\* changed.
C1_IdempotentRegistration ==
    Registered("get_or_create_user") =>
        \A u \in Usernames \cup {"bob"}, h \in InviterHashes :
            /\ Again(u, h).l.res.returned
            /\ Again(u, h).l.res.id = last.res.id
            /\ Again(u, h).db = db

\* A second registration of a registered externalId, carrying the hash of another
\* registered user, has run.
C1_Witness ==
    /\ Registered("get_or_create_user")
    /\ RowsWithTg(last.pre.users, last.a.tg_id) # {}
    /\ \E i \in RowsWithHash(last.pre.users, last.a.invited_by_hash) :
            last.pre.users[i].tg_id # last.a.tg_id
    /\ last.res.id \in RowsWithTg(last.pre.users, last.a.tg_id)

\* C2: in every state of every interleaving of concurrent handlers, no two rows
\* of the users table have the same tg_id.
C2_OneRowPerExternalId ==
    \A i, j \in DOMAIN db.users : i # j => db.users[i].tg_id # db.users[j].tg_id

\* Two first-contact registrations of one externalId raced: one created the row,
\* the other got past the lookup and was rejected at its INSERT.
C2_Witness ==
    \E k \in DOMAIN hist :
        /\ hist[k].a.op = "get_or_create_user"
        /\ hist[k].res.raised = "IntegrityError"
        /\ RowsWithTg(db.users, hist[k].a.tg_id) # {}

IsIncrement(e) ==
    e.a.op = "add_coins" /\ e.a.user_id = 1 /\ e.a.amount = 1 /\ e.res.success

IsFirstRegistration(e) ==
    e.a.op = "get_or_create_user" /\ e.a.invited_by_hash = NULL /\ e.res.id = 1

\* C3: when one registration and then N calls add_coins(U, 1), concurrent or not,
\* have all returned, U.coins is N above the initial balance.
C3_NoLostIncrement ==
    (/\ Quiescent
     /\ hist # <<>>
     /\ IsFirstRegistration(hist[1])
     /\ \A k \in 2 .. Len(hist) : IsIncrement(hist[k])
     /\ 1 \in DOMAIN db.users)
    => db.users[1].coins = DEFAULT_COINS + (Len(hist) - 1)

FailedPayment ==
    /\ last.a.op = "process_referral_payment"
    /\ ~last.res.success

\* C4: after process_referral_payment has failed (a failure result, or an
\* exception out of one of its steps), the payer's coins and subscription_until
\* and the referrer's referral_earnings are what they were before the call.
C4_PaymentAllOrNothing ==
    FailedPayment =>
        \A i \in DOMAIN last.pre.users :
            /\ i \in DOMAIN db.users
            /\ i = last.a.user_id =>
                    /\ db.users[i].coins = last.pre.users[i].coins
                    /\ db.users[i].subscription_until = last.pre.users[i].subscription_until
            /\ db.users[i].referral_earnings = last.pre.users[i].referral_earnings


\* A payment that succeeded for a payer whose invited_by_hash resolved to a
\* referrer with a percentage in 0..100.
Referrers ==
    IF last.a.op = "process_referral_payment" /\ last.res.success
          /\ last.a.user_id \in DOMAIN last.pre.users
          /\ Truthy(last.pre.users[last.a.user_id].invited_by_hash)
    THEN {r \in RowsWithHash(last.pre.users, last.pre.users[last.a.user_id].invited_by_hash) :
            last.pre.users[r].referral_percentage \in 0 .. 100}
    ELSE {}

Floor100(x) == x \div 100

Trunc100(x) == IF x >= 0 THEN x \div 100 ELSE -((-x) \div 100)

PaymentCredits(Share(_)) ==
    \A r \in Referrers :
        LET u == last.a.user_id
            before == last.pre.users
        IN  /\ db.users[u].coins = before[u].coins + last.a.amount
            /\ db.users[u].subscription_until = before[u].subscription_until + last.a.days
            /\ db.users[r].referral_earnings =
                   before[r].referral_earnings
                       + Share(last.a.payment * before[r].referral_percentage)

\* C5 as claimed: a successful payment of a referred payer adds coinsToAdd to the
\* payer's coins, daysToAdd to the payer's subscription_until and
\* floor(paymentAmount * percentage / 100) to the referrer's referral_earnings.
C5_FloorBonus == PaymentCredits(Floor100)

\* C5 as amended: the same, with the referrer credited paymentAmount * percentage
\* / 100 truncated toward zero (the floor only when the amount is not negative).
C5_TruncatedBonus == PaymentCredits(Trunc100)

\* A negative payment whose share is not a whole number has been credited.
C5_Witness ==
    \E r \in Referrers :
        /\ last.res.referrer_id = r
        /\ last.a.payment < 0
        /\ last.pre.users[r].referral_percentage = 33
        /\ (last.a.payment * 33) % 100 # 0
        /\ db.users[r].referral_earnings # last.pre.users[r].referral_earnings

Inviters == RowsWithHash(last.pre.users, last.a.invited_by_hash)

\* C6: registering a new user with the user_hash of an existing user A adds 1 to
\* A.invited_count and 1 to A.coins, and the new user's invited_by_hash is
\* A.user_hash.
C6_ReferralBonus ==
    CreatedRow =>
        \A i \in Inviters :
            /\ db.users[i].invited_count = last.pre.users[i].invited_count + 1
            /\ db.users[i].coins = last.pre.users[i].coins + 1
            /\ db.users[last.res.id].invited_by_hash = last.pre.users[i].user_hash
            /\ last.res.user.invited_by_hash = last.pre.users[i].user_hash

\* A new user has been registered with the hash of an existing user.
C6_Witness == CreatedRow /\ Inviters # {} /\ last.res.id \notin Inviters

\* C7: registering a new user with no inviter hash, or with one that matches no
\* row, raises nothing: the user is created with invited_by_hash NULL and no
\* other user's invited_count or coins changes.
C7_UnknownInviter ==
    (/\ last.a.op = "get_or_create_user"
     /\ RowsWithTg(last.pre.users, last.a.tg_id) = {}
     /\ Inviters = {})
    => /\ last.res.returned
       /\ last.res.raised = ""
       /\ last.res.id \in DOMAIN db.users
       /\ last.res.id \notin DOMAIN last.pre.users
       /\ db.users[last.res.id].invited_by_hash = NULL
       /\ \A i \in DOMAIN last.pre.users :
            /\ i \in DOMAIN db.users
            /\ db.users[i].invited_count = last.pre.users[i].invited_count
            /\ db.users[i].coins = last.pre.users[i].coins

\* A new user has been registered with a hash no row has, beside existing users.
C7_Witness ==
    /\ CreatedRow
    /\ last.a.invited_by_hash = UnknownHash
    /\ DOMAIN last.pre.users # {}

SubscriptionOps == {"extend_subscription", "add_to_user", "process_referral_payment"}

NotMovedBack ==
    \A i \in DOMAIN last.pre.users \cap DOMAIN db.users :
        db.users[i].subscription_until >= last.pre.users[i].subscription_until

\* C8 as claimed: no call of extend_subscription, update_subscription, add_to_user
\* or process_referral_payment, whatever its days, leaves a user's
\* subscription_until below its value before the call.
C8_SubscriptionMonotonic ==
    last.a.op \in SubscriptionOps \cup {"update_subscription"} => NotMovedBack

\* C8 as amended: no call of extend_subscription, add_to_user or
\* process_referral_payment with days >= 0 leaves a user's subscription_until
\* below its value before the call.
C8_ForwardWhenDaysNotNegative ==
    (last.a.op \in SubscriptionOps /\ last.a.days >= 0) => NotMovedBack

\* A call with days > 0 has moved a subscription forward.
C8_Witness ==
    /\ last.a.op \in SubscriptionOps
    /\ last.a.days > 0
    /\ \E i \in DOMAIN last.pre.users \cap DOMAIN db.users :
            db.users[i].subscription_until > last.pre.users[i].subscription_until

Extend(i, d) == [Args("extend_subscription") EXCEPT !.user_id = i, !.days = d]

\* C9: extend_subscription(user, days) sets subscription_until to its previous
\* value plus days, whatever the clock shows and also when the previous value is
\* in the past; extending by d1 and then by d2 gives the store that one extension
\* by d1 + d2 gives.
C9_ExtendCumulative ==
    (last.a.op = "extend_subscription" /\ last.res.success) =>
        LET i == last.a.user_id
            d1 == last.a.days
        IN  /\ db.users[i].subscription_until = last.pre.users[i].subscription_until + d1
            /\ \A d2 \in {-4, 1} :
                 LET two == RunToEnd(db, Enter(Extend(i, d2), now), now)
                     one == RunToEnd(last.pre, Enter(Extend(i, d1 + d2), now), now)
                 IN  two.l.res.success /\ one.l.res.success /\ two.db = one.db

\* A subscription that had lapsed has been extended.
C9_Witness ==
    /\ last.a.op = "extend_subscription"
    /\ last.res.success
    /\ last.a.days > 0
    /\ last.pre.users[last.a.user_id].subscription_until < last.today

\* C10: no row's invited_by_hash is that row's own user_hash.
C10_NoSelfReferral ==
    \A i \in DOMAIN db.users : db.users[i].invited_by_hash # db.users[i].user_hash

-----------------------------------------------------------------------------
(* Claims on the repository *)

Found == last.a.user_id \in DOMAIN last.pre.users

Keys(kwargs) == {kwargs[k].key : k \in DOMAIN kwargs}

\* C11: create_user with a tg_id or a user_hash that a stored row already has
\* fails with the store's duplicate error (IntegrityError), and the store is
\* what it was before the call.
C11_CreateUserAlreadyExists ==
    (/\ last.a.op = "create_user"
     /\ \/ RowsWithTg(last.pre.users, last.a.tg_id) # {}
        \/ RowsWithHash(last.pre.users, last.a.user_hash) # {})
    => /\ last.res.raised = "IntegrityError"
       /\ ~last.res.returned
       /\ db = last.pre

\* create_user was called with a fresh tg_id and a user_hash that is taken.
C11_Witness ==
    /\ last.a.op = "create_user"
    /\ RowsWithTg(last.pre.users, last.a.tg_id) = {}
    /\ RowsWithHash(last.pre.users, last.a.user_hash) # {}
    /\ last.res.raised = "IntegrityError"

Registrations(tg_id) ==
    {k \in DOMAIN hist : hist[k].a.op = "get_or_create_user" /\ hist[k].a.tg_id = tg_id}

\* C12: when all calls have ended and none was delete_user, every registration
\* of one externalId has returned, none has raised, and all have returned the id
\* of the same row.
C12_RaceLoserRecovers ==
    (Quiescent /\ \A k \in DOMAIN hist : hist[k].a.op # "delete_user") =>
        \A t \in TgIds : \A j, k \in Registrations(t) :
            /\ hist[j].res.returned
            /\ hist[j].res.raised = ""
            /\ hist[j].res.id = hist[k].res.id

Whitelist == {"coins", "invited_count", "invited_by_hash", "referral_earnings",
              "referral_percentage", "subscription_until", "username"}

\* C13: update_user of an existing user with a field name outside the whitelist
\* reports an error and applies none of the fields it was given.
C13_UnknownFieldsRejected ==
    (/\ last.a.op = "update_user"
     /\ Found
     /\ Keys(last.a.kwargs) \ Whitelist # {})
    => /\ ~last.res.success
       /\ db = last.pre

\* C14: no call leaves a stored row with another id, tg_id or user_hash than it
\* had before the call.
C14_IdentityImmutable ==
    \A i \in DOMAIN last.pre.users :
        /\ i \in DOMAIN db.users
        /\ db.users[i].tg_id = last.pre.users[i].tg_id
        /\ db.users[i].user_hash = last.pre.users[i].user_hash

\* C15: no two rows have the same user_hash, and every row's user_hash is
\* generate_user_hash of its tg_id.
C15_HashUniqueAndDerived ==
    /\ \A i, j \in DOMAIN db.users : i # j => db.users[i].user_hash # db.users[j].user_hash
    /\ \A i \in DOMAIN db.users : db.users[i].user_hash = generate_user_hash(db.users[i].tg_id)

SameInviter ==
    \A i \in DOMAIN last.pre.users \cap DOMAIN db.users :
        db.users[i].invited_by_hash = last.pre.users[i].invited_by_hash

\* C16 as claimed: no call changes the invited_by_hash of a row that existed
\* before it.
C16_NeverReassigned == SameInviter

\* C16 as amended: no call other than update_user with invited_by_hash among its
\* fields changes the invited_by_hash of a row that existed before it.
C16_ReassignedOnlyByUpdateUser ==
    (last.a.op = "update_user" /\ "invited_by_hash" \in Keys(last.a.kwargs)) \/ SameInviter

\* A registered user has registered again with the hash of another user, which
\* is not the invited_by_hash the row has.
C16_Witness ==
    /\ Registered("get_or_create_user")
    /\ \E i \in RowsWithTg(last.pre.users, last.a.tg_id) :
          /\ last.pre.users[i].invited_by_hash # last.a.invited_by_hash
          /\ db.users[i].invited_by_hash = last.pre.users[i].invited_by_hash
          /\ \E j \in RowsWithHash(last.pre.users, last.a.invited_by_hash) : j # i

\* C17: for a user that exists, add_coins sets coins to the old coins plus amount
\* and subtract_coins to the old coins minus amount, with no floor, and both
\* return the user.
C17_CoinsNoFloor ==
    (last.a.op \in {"add_coins", "subtract_coins"} /\ Found) =>
        LET i == last.a.user_id
            delta == IF last.a.op = "add_coins" THEN last.a.amount ELSE -last.a.amount
        IN  /\ last.res.success
            /\ db = [last.pre EXCEPT !.users[i].coins = @ + delta]
            /\ last.res.user.coins = last.pre.users[i].coins + delta

\* subtract_coins has taken more than the balance and left it negative.
C17_Witness ==
    /\ last.a.op = "subtract_coins"
    /\ Found
    /\ last.a.amount > last.pre.users[last.a.user_id].coins
    /\ last.res.success
    /\ db.users[last.a.user_id].coins < 0

Mutators == {"add_coins", "subtract_coins", "add_referral_earnings",
             "update_referral_percentage", "increment_invited_count",
             "extend_subscription", "update_subscription"}

\* C18: a mutator of one user, or process_referral_payment, called with an id no
\* row has returns its not-found value (None, success False), raises nothing and
\* leaves the store as it was.
C18_NotFoundIsAValue ==
    (last.a.op \in Mutators \cup {"process_referral_payment"} /\ ~Found) =>
        /\ last.res.returned
        /\ ~last.res.success
        /\ last.res.raised = ""
        /\ last.a.op = "process_referral_payment" => last.res.error = "User not found"
        /\ db = last.pre

\* process_referral_payment was called with an id no row has, beside stored rows.
C18_Witness ==
    /\ last.a.op = "process_referral_payment"
    /\ ~Found
    /\ last.pre.users # EmptyMap
    /\ last.res.returned

\* C19: add_referral_earnings of a user that exists adds amount to that user's
\* referral_earnings and changes no other field of that user and no other row.
C19_EarningsFrame ==
    (last.a.op = "add_referral_earnings" /\ Found) =>
        /\ last.res.success
        /\ db = [last.pre EXCEPT !.users[last.a.user_id].referral_earnings = @ + last.a.amount]

\* add_referral_earnings has credited one of two stored users.
C19_Witness ==
    /\ last.a.op = "add_referral_earnings"
    /\ Found
    /\ Cardinality(DOMAIN last.pre.users) = 2
    /\ last.a.amount # 0
    /\ db # last.pre

\* The rows whose referral_earnings the last call changed.
Credited ==
    {i \in DOMAIN last.pre.users \cap DOMAIN db.users :
        db.users[i].referral_earnings # last.pre.users[i].referral_earnings}

\* The last call was process_referral_payment and i is the row whose user_hash
\* is the payer's invited_by_hash.
PaidReferrer(i) ==
    /\ last.a.op = "process_referral_payment"
    /\ Found
    /\ last.pre.users[i].user_hash = last.pre.users[last.a.user_id].invited_by_hash

\* C20 as claimed: a call changes a row's referral_earnings only if it is
\* process_referral_payment for a payer whose invited_by_hash is that row's
\* user_hash.
C20_CreditedOnlyByPayment == \A i \in Credited : PaidReferrer(i)

\* C20 as amended: a call changes a row's referral_earnings only if it is
\* process_referral_payment for a payer whose invited_by_hash is that row's
\* user_hash, or the admin's command /add_referral_earnings naming that row, or
\* add_referral_earnings of that row, or update_user of that row with
\* referral_earnings among its fields.
C20_CreditedByPaymentOrAdmin ==
    \A i \in Credited :
        \/ PaidReferrer(i)
        \/ /\ last.a.op = "admin_add_referral_earnings"
           /\ \/ last.pre.users[i].tg_id = last.a.tg_id
              \/ last.a.tg_id = 0 /\ last.pre.users[i].user_hash = last.a.user_hash
        \/ last.a.op = "add_referral_earnings" /\ last.a.user_id = i
        \/ /\ last.a.op = "update_user"
           /\ last.a.user_id = i
           /\ "referral_earnings" \in Keys(last.a.kwargs)

\* A payment has credited the payer's referrer.
C20_Witness ==
    \E i \in Credited : PaidReferrer(i) /\ i # last.a.user_id /\ last.res.referrer_id = i

-----------------------------------------------------------------------------
(* Claims on percentages, defaults and subscriptions *)

\* C21: every row's referral_percentage is in 0..100, and a call that asks for a
\* percentage outside 0..100 leaves the store as it was.
C21_PercentageInRange ==
    /\ \A i \in DOMAIN db.users : db.users[i].referral_percentage \in 0 .. 100
    /\ (last.a.op = "update_referral_percentage" /\ last.a.amount \notin 0 .. 100)
            => db = last.pre

\* C24: a user registered with no inviter (no hash, or a hash no row has) is
\* stored with coins 2, invited_by_hash NULL, invited_count 0, referral_earnings
\* 0, referral_percentage 5 and subscription_until three days after the clock.
C24_FreshUserDefaults ==
    (CreatedRow /\ Inviters = {}) =>
        LET u == db.users[last.res.id]
        IN  /\ u.coins = 2
            /\ u.invited_by_hash = NULL
            /\ u.invited_count = 0
            /\ u.referral_earnings = 0
            /\ u.referral_percentage = 5
            /\ u.subscription_until = last.today + 3
            /\ last.res.user = u

\* A user has registered with no hash after the clock had advanced.
C24_Witness ==
    /\ CreatedRow
    /\ last.a.invited_by_hash = NULL
    /\ last.today > 0
    /\ db.users[last.res.id].subscription_until = last.today + 3

\* C27: when add_to_user with coins # 0 and days # 0 reports a failure (a failed
\* step, or an exception it answers with "operation failed"), the user's coins
\* and subscription_until are what they were before the command.
C27_GrantAllOrNothing ==
    (/\ last.a.op = "add_to_user"
     /\ last.a.amount # 0
     /\ last.a.days # 0
     /\ ~last.res.success)
    => \A i \in RowsWithTg(last.pre.users, last.a.tg_id) :
            /\ i \in DOMAIN db.users
            /\ db.users[i].coins = last.pre.users[i].coins
            /\ db.users[i].subscription_until = last.pre.users[i].subscription_until

\* C28: update_subscription of a user that exists, with days that keep the date
\* in datetime's range, returns the user and sets subscription_until to the
\* clock plus days whatever it was, and changes nothing else.
C28_ResetSubscription ==
    (/\ last.a.op = "update_subscription"
     /\ Found
     /\ InRange(last.today + last.a.days))
    => /\ last.res.success
       /\ db = [last.pre EXCEPT !.users[last.a.user_id].subscription_until =
                                    last.today + last.a.days]

\* update_subscription has moved a subscription back, after the clock had advanced.
C28_Witness ==
    /\ last.a.op = "update_subscription"
    /\ last.res.success
    /\ last.today > 0
    /\ last.pre.users[last.a.user_id].subscription_until > last.today + last.a.days
    /\ db.users[last.a.user_id].subscription_until = last.today + last.a.days

-----------------------------------------------------------------------------
(* Claims on the ledger *)

OwnedBy(rows, user_id) == {k \in DOMAIN rows : rows[k].user_id = user_id}

\* The rows of a child table that other users own are what they were, and no
\* row has appeared.
OthersKept(before, after, user_id) ==
    /\ DOMAIN after \subseteq DOMAIN before
    /\ \A k \in DOMAIN before \ OwnedBy(before, user_id) :
            k \in DOMAIN after /\ after[k] = before[k]

\* C22: after delete_user(id) has returned true, the user is gone, no transaction
\* and no usage record has user_id = id, and the records of every other user and
\* every other user are unchanged.
C22_DeleteCascades ==
    (last.a.op = "delete_user" /\ last.res.success) =>
        LET id == last.a.user_id
        IN  /\ db.users = Without(last.pre.users, {id})
            /\ OwnedBy(db.transactions, id) = {}
            /\ OwnedBy(db.usage, id) = {}
            /\ OthersKept(last.pre.transactions, db.transactions, id)
            /\ OthersKept(last.pre.usage, db.usage, id)

\* A user that owned a transaction has been deleted while another user's record
\* was stored.
C22_Witness ==
    /\ last.a.op = "delete_user"
    /\ last.res.success
    /\ OwnedBy(last.pre.transactions, last.a.user_id) # {}
    /\ DOMAIN db.transactions \cup DOMAIN db.usage # {}

\* C23: a transaction whose owner exists after a call is, after the call, the
\* row it was before the call.
C23_TransactionsAppendOnly ==
    \A k \in DOMAIN last.pre.transactions :
        last.pre.transactions[k].user_id \in DOMAIN db.users =>
            /\ k \in DOMAIN db.transactions
            /\ db.transactions[k] = last.pre.transactions[k]

\* The instant a stored timestamp stands for, and the instant of the call less
\* the window: usedAt >= now - days, instants compared as instants.
InWindow(r) ==
    \/ r.used_at[1] > last.today - last.a.days
    \/ r.used_at[1] = last.today - last.a.days /\ last.a.micro = 0

WindowRecords ==
    {last.pre.usage[k] : k \in {j \in OwnedBy(last.pre.usage, last.a.user_id) :
                                    InWindow(last.pre.usage[j])}}

\* C25: get_usage_stats(user, days) returns, for the user's usage records with
\* used_at >= now - days, their number as total_usages and the sum of their
\* coins_used as total_coins_used, and average_per_usage 0 when there are none.
C25_UsageStatsWindow ==
    last.a.op = "get_usage_stats" =>
        /\ last.res.returned
        /\ last.res.stats.period_days = last.a.days
        /\ last.res.stats.total_usages = Cardinality(WindowRecords)
        /\ last.res.stats.total_coins_used = SumCoinsUsed(WindowRecords)
        /\ WindowRecords = {} => last.res.stats.average_per_usage = 0

-----------------------------------------------------------------------------
(* Claims on the admin's commands *)

Commands == {"/add_to_user", "/add_referral_earnings", "/set_referral_percentage"}

Arity(op) == IF op = "/add_to_user" THEN 3 ELSE 2

\* the positions of the arguments that are numbers
NumericArgs(op) == IF op = "/add_to_user" THEN {1, 2, 3} ELSE {2}

\* A decimal integer: digits, with or without a sign
IsInteger(s) ==
    \E k \in {0, 1} :
        /\ Len(s) > k
        /\ k = 1 => s[1] \in {"+", "-"}
        /\ \A j \in (k + 1) .. Len(s) : s[j] \in DecimalDigits

IsZero(s) == IsInteger(s) /\ \A j \in DOMAIN s : s[j] \in {"+", "-", "0"}

WrongCount(a) == Len(split(a.text)) # Arity(a.op)

NotANumber(a) == ~WrongCount(a) /\ \E k \in NumericArgs(a.op) : ~IsInteger(split(a.text)[k])

NothingToAdd(a) ==
    /\ a.op = "/add_to_user"
    /\ ~WrongCount(a)
    /\ IsZero(split(a.text)[2])
    /\ IsZero(split(a.text)[3])

Malformed(a) == WrongCount(a) \/ NotANumber(a) \/ NothingToAdd(a)

\* C26: an admin command whose text has a wrong number of arguments or a
\* numeric argument that is not an integer (and /add_to_user with coins = 0 and
\* days = 0) is not carried out and leaves the whole store as it was.
C26_MalformedCommandRejected ==
    (last.a.op \in Commands /\ Malformed(last.a))
    => /\ db = last.pre
       /\ ~last.res.success

\* A command with the right number of arguments, naming a registered user, has
\* been answered with the usage text because a number was not an integer.
C26_Witness ==
    /\ last.a.op \in Commands
    /\ NotANumber(last.a)
    /\ RowsWithTg(last.pre.users, int(split(last.a.text)[1]).val) # {}
    /\ last.res.error = "usage"
    /\ db = last.pre

-----------------------------------------------------------------------------
(* Claims on the order of a registration's effects *)

\* The handler in task p takes the step.
Steps(p) == ~Free(p) /\ procs'[p] # procs[p]

\* The step changes invited_count or coins of a row that is stored.
CountsTouched ==
    \E i \in DOMAIN db.users \cap DOMAIN db'.users :
        \/ db'.users[i].invited_count # db.users[i].invited_count
        \/ db'.users[i].coins # db.users[i].coins

\* C29: a step of get_or_create_user changes invited_count or coins of a stored
\* row only after create_user has returned the new user to the handler, whose
\* row is then committed.  A registration whose create_user fails ends there,
\* so it changes neither.
C29_InviterAfterCreate ==
    [][\A p \in Procs :
          (Steps(p) /\ procs[p].a.op = "get_or_create_user" /\ CountsTouched)
          => /\ procs[p].user # 0
             /\ RowsWithTg(db.users, procs[p].a.tg_id) # {}]_vars

\* Of two racing registrations of one user with the same inviter, one has
\* failed in create_user and the other, its user created, is about to commit a
\* change of the inviter, whose invited_count is still 0.
C29_Witness ==
    \E p \in Procs :
        /\ procs[p].a.op = "get_or_create_user"
        /\ procs[p].pc = "m_commit"
        /\ procs[p].user # 0
        /\ procs[p].inviter # 0
        /\ \E k \in DOMAIN hist :
               /\ hist[k].a.op = "get_or_create_user"
               /\ hist[k].a.tg_id = procs[p].a.tg_id
               /\ Truthy(hist[k].a.invited_by_hash)
               /\ hist[k].res.raised = "IntegrityError"
        /\ \A i \in DOMAIN db.users : db.users[i].invited_count = 0

\* The users whose registration has returned them as invited by user 42
InvitedBy42 ==
    {t \in ReferTgIds :
        \E k \in DOMAIN hist :
            /\ hist[k].a.op = "get_or_create_user"
            /\ hist[k].a.tg_id = t
            /\ hist[k].res.returned
            /\ hist[k].res.user.invited_by_hash = generate_user_hash(42)}

\* C30: when the registrations of k distinct users that name the existing user
\* 42 as their inviter have all completed, however their store calls were
\* interleaved, the inviter's invited_count is k and its coins are the default
\* plus k bonuses.
C30_NoLostReferral ==
    Quiescent
    => \A i \in RowsWithTg(db.users, 42) :
          /\ db.users[i].invited_count = Cardinality(InvitedBy42)
          /\ db.users[i].coins = DEFAULT_COINS + REFERRAL_BONUS * Cardinality(InvitedBy42)

-----------------------------------------------------------------------------
(* Claims on payments *)

Payer == last.a.user_id

\* A payment for a user that exists, with days that keep the subscription's
\* date within datetime's range
Payment ==
    /\ last.a.op = "process_referral_payment"
    /\ Payer \in DOMAIN last.pre.users
    /\ InRange(last.pre.users[Payer].subscription_until + last.a.days)

\* The store before the payment with the payer's coins and subscription raised
Paid ==
    [last.pre EXCEPT !.users[Payer].coins = @ + last.a.amount,
                     !.users[Payer].subscription_until = @ + last.a.days]

Dangling ==
    /\ Truthy(last.pre.users[Payer].invited_by_hash)
    /\ RowsWithHash(last.pre.users, last.pre.users[Payer].invited_by_hash) = {}

\* C31: a payment of a user whose invited_by_hash names no stored user (with
\* days that keep the date in range) succeeds, adds the coins and the days to
\* the payer, reports bonus 0 and no referrer, and changes nothing else.
C31_DanglingInviterHarmless ==
    (Payment /\ Dangling)
    => /\ last.res.success
       /\ last.res.bonus = 0
       /\ last.res.referrer_id = 0
       /\ db = Paid

\* User 2, invited by user 1, has paid after user 1 was deleted.
C31_Witness ==
    /\ Payment
    /\ Dangling
    /\ Payer = 2
    /\ 1 \notin DOMAIN last.pre.users
    /\ last.pre.users[2].invited_by_hash = generate_user_hash(42)
    /\ last.res.success
    /\ db.users[2].coins = DEFAULT_COINS + last.a.amount

\* The users the payer's invited_by_hash names
Referrer ==
    IF Truthy(last.pre.users[Payer].invited_by_hash)
    THEN RowsWithHash(last.pre.users, last.pre.users[Payer].invited_by_hash)
    ELSE {}

EarningsGain(i) == db.users[i].referral_earnings - last.pre.users[i].referral_earnings

\* C32: a successful payment reports a referrer exactly when the payer's
\* invited_by_hash names a stored user, the bonus it reports is the amount by
\* which that user's referral_earnings have grown, and no other user's
\* referral_earnings change; with no referrer (no invited_by_hash among the
\* cases) it reports bonus 0 and no referrer, and no referral_earnings change.
C32_ResultReportsCredit ==
    (last.a.op = "process_referral_payment" /\ last.res.success)
    => /\ DOMAIN db.users = DOMAIN last.pre.users
       /\ (last.res.referrer_id # 0) <=> (Referrer # {})
       /\ Referrer # {} => /\ last.res.referrer_id \in Referrer
                            /\ last.res.bonus = EarningsGain(last.res.referrer_id)
       /\ Referrer = {} => last.res.bonus = 0
       /\ \A i \in DOMAIN db.users \ {last.res.referrer_id} : EarningsGain(i) = 0

\* A payment has credited a referrer whose percentage had been set to 33.
C32_Witness ==
    /\ last.a.op = "process_referral_payment"
    /\ last.res.success
    /\ last.res.referrer_id \in Referrer \ {Payer}
    /\ last.pre.users[last.res.referrer_id].referral_percentage = 33
    /\ last.res.bonus = 330
    /\ EarningsGain(last.res.referrer_id) = 330

-----------------------------------------------------------------------------
(* Claims on the two balances *)

RECURSIVE SumOver(_, _)
SumOver(rows, ids) ==
    IF ids = {} THEN 0
    ELSE LET k == CHOOSE x \in ids : TRUE
         IN  rows[k].amount + SumOver(rows, ids \ {k})

\* The sum of the amounts of a user's transactions
Balance(d, user_id) == SumOver(d.transactions, OwnedBy(d.transactions, user_id))

CoinsFrame ==
    /\ last.a.op \in {"add_coins", "subtract_coins"} =>
            /\ db.transactions = last.pre.transactions
            /\ db.usage = last.pre.usage
    /\ last.a.op = "create_transaction" => db.users = last.pre.users
    /\ last.a.op = "get_user_balance" =>
            /\ last.res.balance = Balance(db, last.a.user_id)
            /\ db = last.pre

BalanceMoved == {i \in Ids : Balance(db, i) # Balance(last.pre, i)}

\* C33: add_coins and subtract_coins leave every transaction as it was,
\* create_transaction leaves every user as it was, get_user_balance returns
\* the sum of the user's transaction amounts, and that sum changes only in
\* create_transaction and delete_transaction.
C33_BalanceOnlyByLedger ==
    /\ CoinsFrame
    /\ BalanceMoved # {} => last.a.op \in {"create_transaction", "delete_transaction"}

\* C33, with the deletion of the owner: the sum of a user's transaction
\* amounts changes only in create_transaction and delete_transaction and, for
\* the user deleted, in delete_user; the rest as stated.
C33_BalanceByLedgerOrDeleteUser ==
    /\ CoinsFrame
    /\ BalanceMoved # {} =>
            \/ last.a.op \in {"create_transaction", "delete_transaction"}
            \/ last.a.op = "delete_user" /\ BalanceMoved = {last.a.user_id}

\* The coins of a user and the sum of the user's transactions agreed, and
\* add_coins has raised the coins and left the transactions as they were.
C33_Witness ==
    /\ last.a.op = "add_coins"
    /\ last.res.success
    /\ OwnedBy(db.transactions, last.a.user_id) # {}
    /\ db.transactions = last.pre.transactions
    /\ Balance(last.pre, last.a.user_id) = last.pre.users[last.a.user_id].coins
    /\ Balance(db, last.a.user_id) # db.users[last.a.user_id].coins

-----------------------------------------------------------------------------
(* Claims on registrations *)

\* get_or_create_user compares the inviter's hash with the user's own: the
\* user is not registered, a hash is given and a user has that hash.
GuardEvaluated ==
    /\ last.a.op = "get_or_create_user"
    /\ RowsWithTg(last.pre.users, last.a.tg_id) = {}
    /\ Truthy(last.a.invited_by_hash)
    /\ RowsWithHash(last.pre.users, last.a.invited_by_hash) # {}

\* C34: when get_or_create_user evaluates its self-referral guard for a user
\* that is not registered, no stored user has the hash derived from that
\* user's tg_id, so the guard never finds the inviter to be the user itself.
C34_SelfReferralUnreachable ==
    GuardEvaluated => RowsWithHash(last.pre.users, generate_user_hash(last.a.tg_id)) = {}

\* The users that carry the hash of user i as their inviter
Invitees(i) == {j \in DOMAIN db.users : db.users[j].invited_by_hash = db.users[i].user_hash}

\* C35: when registrations, coins, subscription, ledger and payment operations
\* run one at a time and no user is deleted or updated, after every call the
\* invited_count of each user is the number of users that carry its hash as
\* their invited_by_hash.
C35_InvitedCountMatches ==
    \A i \in DOMAIN db.users : db.users[i].invited_count = Cardinality(Invitees(i))

\* One user has invited the two others.
C35_Witness ==
    \E i \in DOMAIN db.users :
        /\ db.users[i].invited_count = 2
        /\ Cardinality(Invitees(i)) = 2
        /\ Registered("get_or_create_user")
        /\ last.res.id \in Invitees(i)

-----------------------------------------------------------------------------
(* Claims on the rows an operation touches *)

\* The stored user j differs from what it was at most in the fields F.
KeptBut(j, F) ==
    /\ j \in DOMAIN db.users
    /\ \A f \in Columns \ F : db.users[j][f] = last.pre.users[j][f]

SameUsers == DOMAIN db.users = DOMAIN last.pre.users

RowMutators == {"add_coins", "subtract_coins", "extend_subscription", "update_subscription",
                "update_referral_percentage"}

\* The inviter a registration resolves
ResolvedInviter ==
    IF Truthy(last.a.invited_by_hash)
    THEN RowsWithHash(last.pre.users, last.a.invited_by_hash)
    ELSE {}

\* C36: add_coins, subtract_coins, extend_subscription, update_subscription and
\* update_referral_percentage of a user change no other user; the registration
\* of a new user creates its row and changes only invited_count and coins of
\* the inviter it resolves; process_referral_payment changes only the payer's
\* coins and subscription_until and the resolved referrer's referral_earnings.
\* None of them touches a transaction or a usage record.
C36_DesignatedRowsOnly ==
    /\ last.a.op \in RowMutators =>
            /\ SameUsers
            /\ \A j \in DOMAIN last.pre.users \ {last.a.user_id} : KeptBut(j, {})
    /\ (last.a.op = "get_or_create_user" /\ RowsWithTg(last.pre.users, last.a.tg_id) = {}) =>
            /\ \A j \in DOMAIN db.users \ DOMAIN last.pre.users :
                    db.users[j].tg_id = last.a.tg_id
            /\ \A j \in DOMAIN last.pre.users :
                    KeptBut(j, IF j \in ResolvedInviter THEN {"invited_count", "coins"} ELSE {})
    /\ (last.a.op = "process_referral_payment" /\ Payer \in DOMAIN last.pre.users) =>
            /\ SameUsers
            /\ \A j \in DOMAIN last.pre.users :
                    KeptBut(j, (IF j = Payer THEN {"coins", "subscription_until"} ELSE {})
                               \cup (IF j \in Referrer THEN {"referral_earnings"} ELSE {}))
    /\ last.a.op \in RowMutators \cup {"get_or_create_user", "process_referral_payment"} =>
            /\ db.transactions = last.pre.transactions
            /\ db.usage = last.pre.usage

\* A payment has raised the payer's coins and subscription and the earnings of
\* its referrer, another user, and left the referrer's coins and the payer's
\* earnings as they were.
C36_Witness ==
    /\ last.a.op = "process_referral_payment"
    /\ last.res.success
    /\ last.res.referrer_id \in Referrer \ {Payer}
    /\ db.users[Payer].coins # last.pre.users[Payer].coins
    /\ db.users[Payer].subscription_until # last.pre.users[Payer].subscription_until
    /\ EarningsGain(last.res.referrer_id) # 0
    /\ EarningsGain(Payer) = 0
    /\ db.users[last.res.referrer_id].coins = last.pre.users[last.res.referrer_id].coins

\* The hash the call carries: an argument, or the second word of the message
GivenHash ==
    IF last.a.op = "/start"
    THEN IF split(last.a.text) # <<>> THEN Str(split(last.a.text)[1]) ELSE NULL
    ELSE last.a.invited_by_hash

\* C37: get_or_create_user (also as the command /start) of a tg_id that is
\* registered returns the stored user and leaves the whole store as it was,
\* whatever the username and the hash it is called with: the user's username
\* and invited_by_hash stay as stored.
C37_NoRetroactiveInviter ==
    (/\ last.a.op \in {"get_or_create_user", "/start"}
     /\ RowsWithTg(last.pre.users, last.a.tg_id) # {})
    => /\ db = last.pre
       /\ last.res.returned
       /\ last.res.id \in RowsWithTg(last.pre.users, last.a.tg_id)
       /\ last.res.user = last.pre.users[last.res.id]

\* A user registered without an inviter under one username has sent /start
\* with the hash of another registered user, under another username.
C37_Witness ==
    /\ last.a.op = "/start"
    /\ last.res.returned
    /\ last.res.id \in RowsWithTg(last.pre.users, last.a.tg_id)
    /\ last.pre.users[last.res.id].invited_by_hash = NULL
    /\ last.pre.users[last.res.id].username # last.a.username
    /\ \E i \in RowsWithHash(last.pre.users, GivenHash) : i # last.res.id
    /\ db.users[last.res.id].invited_by_hash = NULL

=============================================================================
